---- MODULE Spec2Model ----
(***************************************************************************)
(* A model of PDFCore: the byte-level object writer (core/writer.rs), the  *)
(* document orchestrator in buffered and streaming mode                    *)
(* (core/document.rs), its host wrapper (lib.rs Document), the page        *)
(* content builder (core/page.rs), the text wrapper (core/text.rs), the    *)
(* layout nodes (core/layout.rs) and the flow paginator (lib.rs            *)
(* render_flow).                                                           *)
(*                                                                         *)
(* Lengths are in bytes, coordinates in PDF units.  Every f64 of the       *)
(* program that the model uses is an integer here: sizes are multiples of  *)
(* 5, so that the leading size * 1.2 is an integer.                        *)
(***************************************************************************)
EXTENDS Integers, Sequences, FiniteSets, TLC

\* inner: the host wrapper's Option<CoreDocument> (lib.rs Document.inner).
\* writer: the PdfWriter and the output file behind it.
\* last: what the last call of the host API returned.
\* finished, added, given: history; whether a terminal call has returned Ok,
\* the pages the successful add_page calls added, each with the number of
\* fonts and images registered at that call, and the images the successful
\* add_image calls registered.
\* flow, lay: a render_flow call and a call sequence on one layout node.
\* shape: a Font and its clones with the shape cache they share.
\* wrap: a Page::text_multiline call; esc: an escape_string call.
\* tbl: a Table under construction; caller: Pages the caller holds and the
\* buffered document they were added to.
VARIABLES inner, writer, last, finished, added, given, flow, lay,
          shape, wrap, esc, tbl, caller

vars == <<inner, writer, last, finished, added, given, flow, lay,
          shape, wrap, esc, tbl, caller>>

\* The variables of the host Document, and those of the component checks.
docVars == <<inner, writer, last, finished, added, given>>
others == <<shape, wrap, esc, tbl, caller>>
Idle == [pc |-> "idle"]
OthersIdle ==
    /\ shape = Idle /\ wrap = Idle /\ esc = Idle /\ tbl = Idle /\ caller = Idle

\* ------------------------------------------------------------------ bounds
\* The number of add_font, add_image and add_page calls made on a document.
MaxCalls == 4
\* The pages render_flow may add before the model stops following it.
MaxFlowPages == 6
\* The widths 20, 30, .. 10 * MaxW and heights 10, 20, .. 10 * MaxH that the
\* layout functions are applied to.
MaxW == 6
MaxH == 10

\* ------------------------------------------------- constants of the program
catalog_id == 1
pages_id == 2
font_id == 3
first_object_id == 4
header_len == 15
free_generation == 65535

\* ------------------------------------------------------------ small helpers
Some(x) == [some |-> TRUE, v |-> x]
None == [some |-> FALSE]

Max(a, b) == IF a >= b THEN a ELSE b
Min(a, b) == IF a <= b THEN a ELSE b

RECURSIVE SumSeq(_)
SumSeq(s) == IF s = <<>> THEN 0 ELSE Head(s) + SumSeq(Tail(s))

\* Number of characters of format!("{}", n) for an integer n.
Digits(n) == Len(ToString(n))

\* The elements of a finite set of integers in ascending order (Vec::sort).
RECURSIVE SortedSeq(_)
SortedSeq(S) ==
    IF S = {} THEN <<>>
    ELSE LET m == CHOOSE x \in S : \A y \in S : x <= y
         IN <<m>> \o SortedSeq(S \ {m})

Range(s) == {s[i] : i \in DOMAIN s}

\* ---------------------------------------------------------------- PdfObject
\* core/writer.rs PdfObject.  A character string that the program escapes is
\* a sequence of one-character strings; names and keys are TLA+ strings.
Integer(i) == [t |-> "Integer", i |-> i]
Real(r) == [t |-> "Real", r |-> r]
Name(n) == [t |-> "Name", n |-> n]
PdfString(s) == [t |-> "String", s |-> s]
Array(a) == [t |-> "Array", a |-> a]
Dictionary(d) == [t |-> "Dictionary", d |-> d]
Stream(d, c) == [t |-> "Stream", d |-> d, c |-> c]
Reference(id) == [t |-> "Reference", id |-> id]

\* str::replace on character sequences
StartsWith(s, pat) == Len(s) >= Len(pat) /\ SubSeq(s, 1, Len(pat)) = pat
RECURSIVE replace(_, _, _)
replace(s, pat, rep) ==
    IF s = <<>> THEN <<>>
    ELSE IF StartsWith(s, pat)
         THEN rep \o replace(SubSeq(s, Len(pat) + 1, Len(s)), pat, rep)
         ELSE <<Head(s)>> \o replace(Tail(s), pat, rep)

\* A faulty variant of escape_string: the parentheses are escaped first, so
\* the backslashes that escape them are doubled by the last replace.
escape_string_parens_first(s) ==
    replace(replace(replace(s, <<"(">>, <<"\\", "(">>), <<")">>, <<"\\", ")">>),
            <<"\\">>, <<"\\", "\\">>)

\* s.replace("\\", "\\\\").replace("(", "\\(").replace(")", "\\)")
escape_string(s) ==
    replace(replace(replace(s, <<"\\">>, <<"\\", "\\">>), <<"(">>, <<"\\", "(">>),
            <<")">>, <<"\\", ")">>)

\* Byte length of a stream body: the sum of the lengths of its chunks.
RECURSIVE ContentLen(_)
ContentLen(c) == IF c = <<>> THEN 0 ELSE Head(c).len + ContentLen(Tail(c))

\* Number of bytes PdfObject::serialize writes for an object.
RECURSIVE SerLen(_)
RECURSIVE DictLen(_)
RECURSIVE ArrayLen(_)
DictLen(d) ==
    IF d = <<>> THEN 0
    ELSE 3 + Len(Head(d)[1]) + SerLen(Head(d)[2]) + DictLen(Tail(d))
ArrayLen(a) ==
    IF a = <<>> THEN 0
    ELSE SerLen(Head(a)) + (IF Len(a) > 1 THEN 1 ELSE 0) + ArrayLen(Tail(a))
SerLen(o) ==
    CASE o.t = "Integer" -> Digits(o.i)
      [] o.t = "Real" -> Digits(o.r)
      [] o.t = "Name" -> 1 + Len(o.n)
      [] o.t = "String" -> 2 + Len(escape_string(o.s))
      [] o.t = "Array" -> 2 + ArrayLen(o.a)
      [] o.t = "Dictionary" -> 2 + DictLen(o.d) + 3
      [] o.t = "Stream" ->
            2 + DictLen(o.d) + 9 + Digits(ContentLen(o.c)) + 11
              + ContentLen(o.c) + 10
      [] o.t = "Reference" -> Digits(o.id) + 4

\* Value of a key of a dictionary (or stream dictionary); None when absent.
RECURSIVE DictGet(_, _)
DictGet(d, key) ==
    IF d = <<>> THEN None
    ELSE IF Head(d)[1] = key THEN Some(Head(d)[2]) ELSE DictGet(Tail(d), key)

DictKeys(d) == {d[i][1] : i \in DOMAIN d}

\* ---------------------------------------------------------------- PdfWriter
\* The writer and the file behind it: file is the sequence of indirect
\* objects written after the header, offset the writer's byte position,
\* xref the recorded (id, offset) pairs, tail the xref table and trailer
\* once written.
NoWriter == [file |-> <<>>, offset |-> 0, xref |-> <<>>, tail |-> <<>>]

\* PdfWriter::new: the header is written, offset = header.len().
PdfWriter_new == [file |-> <<>>, offset |-> header_len, xref |-> <<>>, tail |-> <<>>]

\* Bytes of "{id} 0 obj\n" + serialized object + "\nendobj\n".
ObjLen(id, object) == Digits(id) + 7 + SerLen(object) + 8

\* The file is a sequence of entries [id, obj, at, len]: the object, the
\* byte position of its first byte and its length in bytes.
FileAppend(f, id, object) ==
    Append(f, [id |-> id, obj |-> object,
               at |-> IF f = <<>> THEN header_len
                      ELSE f[Len(f)].at + f[Len(f)].len,
               len |-> ObjLen(id, object)])

\* self.writer.stream_position() after the flush: the end of the file.
stream_position(f) ==
    IF f = <<>> THEN header_len ELSE f[Len(f)].at + f[Len(f)].len

\* Faulty variant of write_object: the offset advances by the estimate of
\* header and footer only (the flush and stream_position are missing).
write_object_estimate(w, id, object) ==
    [w EXCEPT !.xref = Append(@, <<id, w.offset>>),
              !.file = FileAppend(@, id, object),
              !.offset = @ + Digits(id) + 7 + 8]

\* PdfWriter::write_object
write_object(w, id, object) ==
    LET f == FileAppend(w.file, id, object)
    IN [w EXCEPT !.xref = Append(@, <<id, w.offset>>),
                 !.file = f,
                 !.offset = stream_position(f)]

\* self.xref.sort_by_key(|&(id, _)| id): a stable sort by id.
RECURSIVE InsertById(_, _)
InsertById(s, e) ==
    IF s = <<>> THEN <<e>>
    ELSE IF e[1] < Head(s)[1] THEN <<e>> \o s
         ELSE <<Head(s)>> \o InsertById(Tail(s), e)

RECURSIVE SortById(_)
SortById(s) ==
    IF s = <<>> THEN <<>>
    ELSE InsertById(SortById(SubSeq(s, 1, Len(s) - 1)), s[Len(s)])

\* Faulty variant of the sort: the entries stay in the order they were written.
SortByIdMissing(s) == s

xref_sorted(s) == SortById(s)

write_xref_and_trailer(w, root_id) ==
    LET sorted == xref_sorted(w.xref)
        table == <<[offset |-> 0, gen |-> free_generation, flag |-> "f"]>>
                 \o [i \in 1..Len(sorted) |->
                        [offset |-> sorted[i][2], gen |-> 0, flag |-> "n"]]
    IN [w EXCEPT !.xref = sorted,
                 !.tail = <<[first |-> 0, count |-> Len(w.xref) + 1,
                             table |-> table,
                             Size |-> Len(w.xref) + 1,
                             Root |-> root_id,
                             startxref |-> w.offset]>>]

\* --------------------------------------------------------------------- Font
\* core/font.rs Font.  A text is a sequence of one-character strings; the
\* face maps "a", "b", "c" to glyphs 1, 2, 3 and anything else to .notdef.
\* hmtx gives glyph g the advance advance_base + advance_step * g.
TheFont == [name |-> "Sans", units_per_em |-> 2048, num_glyphs |-> 4,
            data_len |-> 4000, advance_base |-> 1000, advance_step |-> 100]

\* The face of the layout checks: every glyph is half an em wide, so a
\* character (a space too) is 5 units wide at size 10.
MonoFont == [name |-> "Mono", units_per_em |-> 1000, num_glyphs |-> 4,
             data_len |-> 4000, advance_base |-> 500, advance_step |-> 0]

GlyphOf(ch) ==
    CASE ch = "a" -> 1 [] ch = "b" -> 2 [] ch = "c" -> 3 [] OTHER -> 0

\* Font::shape_text: the glyph ids of the shaped run (left to right).
shape_text(font, text) == [i \in 1..Len(text) |-> GlyphOf(text[i])]

\* Font::get_glyph_width: the hmtx advance in font units, 0 when absent.
get_glyph_width(font, gid) ==
    IF gid < font.num_glyphs THEN font.advance_base + font.advance_step * gid
    ELSE 0

\* Font::measure_text: the sum of the raw advances scaled by
\* size / units_per_em.
measure_text(font, txt, size) ==
    LET shaped == shape_text(font, txt)
    IN (SumSeq([i \in 1..Len(shaped) |-> get_glyph_width(font, shaped[i])]) * size)
          \div font.units_per_em

\* (width as f32 * (1000.0 / units_per_em)) as i64: truncation.
pdf_width(font, gid) == (get_glyph_width(font, gid) * 1000) \div font.units_per_em

\* --------------------------------------------------------------------- Page
\* core/page.rs Page.  content is the sequence of operator groups appended
\* so far, each with its byte length; used_glyphs maps a font index to the
\* set of glyph ids; used_images is the set of image indices.
Page_new(width, height) ==
    [width |-> width, height |-> height, content |-> <<>>,
     used_glyphs |-> <<>>, used_images |-> {}]

\* used_glyphs.entry(k).or_insert_with(HashSet::new).extend(gids)
EntryExtend(m, k, gids) ==
    [j \in (DOMAIN m) \cup {k} |->
        IF j = k THEN (IF k \in DOMAIN m THEN m[k] ELSE {}) \cup gids
        ELSE m[j]]

\* Page::text: built-in Helvetica, /F1.
text(p, txt, x, y, size) ==
    [p EXCEPT !.content = Append(@,
        [op |-> "Tj", font |-> "F1", str |-> escape_string(txt),
         x |-> x, y |-> y, size |-> size,
         len |-> 25 + Digits(size) + Digits(x) + Digits(y)
                    + Len(escape_string(txt))])]

\* What one call of text_with_font appends to the content: /F{font_index + 2}
\* and the hex CIDs of the shaped text.
TjWithFont(txt, x, y, size, font_index, font) ==
    LET shaped == shape_text(font, txt)
        font_name == "F" \o ToString(font_index + 2)
    IN [op |-> "Tj", font |-> font_name, font_index |-> font_index,
        cids |-> shaped, str |-> txt, x |-> x, y |-> y, size |-> size,
        len |-> 29 + Len(font_name) + Digits(size) + Digits(x)
                   + Digits(y) + 2 + 4 * Len(shaped)]

\* A run of drawing calls on a page: the content grows by their groups and
\* used_glyphs[font_index] by the glyphs of each text_with_font among them.
Paint(p, ops) ==
    LET m == p.used_glyphs
        tj == {i \in DOMAIN ops : ops[i].op = "Tj"}
        keys == (DOMAIN m) \cup {ops[i].font_index : i \in tj}
    IN [p EXCEPT
          !.content = @ \o ops,
          !.used_glyphs =
              [k \in keys |->
                  (IF k \in DOMAIN m THEN m[k] ELSE {})
                  \cup UNION {Range(ops[i].cids) :
                                i \in {j \in tj : ops[j].font_index = k}}]]

\* Page::text_with_font
text_with_font(p, txt, x, y, size, font_index, font) ==
    Paint(p, <<TjWithFont(txt, x, y, size, font_index, font)>>)

\* Page::draw_image: /Im{image_index} Do, image usage.
draw_image(p, image_index, x, y, width, height) ==
    [p EXCEPT
       !.used_images = @ \cup {image_index},
       !.content = Append(@,
           [op |-> "Do", image |-> "Im" \o ToString(image_index),
            x |-> x, y |-> y, w |-> width, h |-> height,
            len |-> 22 + Digits(width) + Digits(height) + Digits(x)
                       + Digits(y) + Digits(image_index)])]

\* Page::draw_rect (stroke), Page::draw_fill_rect (gray fill)
RectStroke(x, y, w, h, width) ==
    [op |-> "re S", x |-> x, y |-> y, w |-> w, h |-> h,
     len |-> 10 + Digits(width) + Digits(x) + Digits(y) + Digits(w) + Digits(h)]
RectFill(x, y, w, h, gray) ==
    [op |-> "re f", x |-> x, y |-> y, w |-> w, h |-> h,
     len |-> 10 + Digits(gray) + Digits(x) + Digits(y) + Digits(w) + Digits(h)]
draw_rect(p, x, y, w, h, width) ==
    [p EXCEPT !.content = Append(@, RectStroke(x, y, w, h, width))]
draw_fill_rect(p, x, y, w, h, gray) ==
    [p EXCEPT !.content = Append(@, RectFill(x, y, w, h, gray))]

\* ------------------------------------------------------------ text wrapper
\* text.split_whitespace(): the words of a text, a word being a maximal run
\* of characters other than the space.
RECURSIVE SplitFrom(_, _)
SplitFrom(txt, word) ==
    IF txt = <<>> THEN (IF word = <<>> THEN <<>> ELSE <<word>>)
    ELSE IF Head(txt) = " "
         THEN (IF word = <<>> THEN <<>> ELSE <<word>>) \o SplitFrom(Tail(txt), <<>>)
         ELSE SplitFrom(Tail(txt), Append(word, Head(txt)))
split_whitespace(txt) == SplitFrom(txt, <<>>)

\* words.join(" ")
RECURSIVE join(_)
join(words) ==
    IF words = <<>> THEN <<>>
    ELSE IF Len(words) = 1 THEN words[1]
    ELSE words[1] \o <<" ">> \o join(Tail(words))

\* The character-level breaking of a word wider than the line: the lines it
\* is cut into (the last one is the remaining characters).
RECURSIVE BreakChars(_, _, _, _, _)
BreakChars(chars, char_buffer, width, size, font) ==
    IF chars = <<>> THEN (IF char_buffer # <<>> THEN <<char_buffer>> ELSE <<>>)
    ELSE IF measure_text(font, Append(char_buffer, Head(chars)), size) <= width
         THEN BreakChars(Tail(chars), Append(char_buffer, Head(chars)), width, size, font)
         ELSE (IF char_buffer # <<>> THEN <<char_buffer>> ELSE <<>>)
              \o BreakChars(Tail(chars), <<Head(chars)>>, width, size, font)

\* The loop of text::calculate_text_lines over the words.
RECURSIVE CountLines(_, _, _, _, _)
CountLines(words, buffer, width, size, font) ==
    IF words = <<>> THEN (IF buffer # <<>> THEN 1 ELSE 0)
    ELSE LET word == Head(words)
         IN IF measure_text(font, word, size) > width
            THEN (IF buffer # <<>> THEN 1 ELSE 0)
                 + Len(BreakChars(word, <<>>, width, size, font))
                 + CountLines(Tail(words), <<>>, width, size, font)
            ELSE IF measure_text(font, join(Append(buffer, word)), size) <= width
                 THEN CountLines(Tail(words), Append(buffer, word), width, size, font)
                 ELSE (IF buffer # <<>> THEN 1 ELSE 0)
                      + CountLines(Tail(words), <<word>>, width, size, font)

\* text::calculate_text_lines (Page::calculate_text_lines is the same code)
calculate_text_lines(txt, width, size, font) ==
    IF txt = <<>> THEN 1
    ELSE Max(CountLines(split_whitespace(txt), <<>>, width, size, font), 1)

\* A faulty variant of the loop: a line is closed only once it is already
\* too wide, so the word that overflows it stays on it.
RECURSIVE EmitLinesLate(_, _, _, _, _)
EmitLinesLate(words, buffer, width, size, font) ==
    IF words = <<>> THEN (IF buffer # <<>> THEN <<join(buffer)>> ELSE <<>>)
    ELSE LET word == Head(words)
         IN IF measure_text(font, word, size) > width
            THEN (IF buffer # <<>> THEN <<join(buffer)>> ELSE <<>>)
                 \o BreakChars(word, <<>>, width, size, font)
                 \o EmitLinesLate(Tail(words), <<>>, width, size, font)
            ELSE IF measure_text(font, join(buffer), size) <= width
                 THEN EmitLinesLate(Tail(words), Append(buffer, word), width, size, font)
                 ELSE <<join(buffer)>>
                      \o EmitLinesLate(Tail(words), <<word>>, width, size, font)

\* The loop of Page::text_multiline over the words: the lines it hands to
\* text_with_font, top to bottom.
RECURSIVE EmitLines(_, _, _, _, _)
EmitLines(words, buffer, width, size, font) ==
    IF words = <<>> THEN (IF buffer # <<>> THEN <<join(buffer)>> ELSE <<>>)
    ELSE LET word == Head(words)
         IN IF measure_text(font, word, size) > width
            THEN (IF buffer # <<>> THEN <<join(buffer)>> ELSE <<>>)
                 \o BreakChars(word, <<>>, width, size, font)
                 \o EmitLines(Tail(words), <<>>, width, size, font)
            ELSE IF measure_text(font, join(Append(buffer, word)), size) <= width
                 THEN EmitLines(Tail(words), Append(buffer, word), width, size, font)
                 ELSE (IF buffer # <<>> THEN <<join(buffer)>> ELSE <<>>)
                      \o EmitLines(Tail(words), <<word>>, width, size, font)

\* size * 1.2
Leading(size) == (size * 12) \div 10

\* Page::text_multiline: line i (from 0) goes to text_with_font at
\* y - i * leading.
MultilineOps(txt, x, y, width, size, font_index, font) ==
    LET lines == EmitLines(split_whitespace(txt), <<>>, width, size, font)
    IN [i \in 1..Len(lines) |->
          TjWithFont(lines[i], x, y - (i - 1) * Leading(size), size, font_index, font)]

text_multiline(p, txt, x, y, width, size, font_index, font) ==
    Paint(p, MultilineOps(txt, x, y, width, size, font_index, font))

\* collect_rest: the words from index i on, joined by spaces.
collect_rest(words, i) == join(SubSeq(words, i, Len(words)))

\* head_str.push(' ') unless empty, then push the joined line.
PushLine(head_str, line_buffer) ==
    (IF head_str # <<>> THEN head_str \o <<" ">> ELSE <<>>) \o join(line_buffer)

\* The while loop of text::split_text_at_lines; i is the index of the word
\* peeked next.  Returns the state the loop ends in.
RECURSIVE SplitLoop(_, _, _, _, _, _, _, _, _)
SplitLoop(words, i, line_buffer, head_str, current_lines, width, size, font, max_lines) ==
    IF i > Len(words)
    THEN [i |-> i, line_buffer |-> line_buffer, head_str |-> head_str,
          current_lines |-> current_lines]
    ELSE IF measure_text(font, join(Append(line_buffer, words[i])), size) <= width
    THEN SplitLoop(words, i + 1, Append(line_buffer, words[i]), head_str,
                   current_lines, width, size, font, max_lines)
    ELSE LET forced == (line_buffer = <<>>)
             lb == IF forced THEN <<words[i]>> ELSE line_buffer
             ni == IF forced THEN i + 1 ELSE i
             hs == PushLine(head_str, lb)
         IN IF current_lines >= max_lines
            THEN [i |-> ni, line_buffer |-> <<>>, head_str |-> hs,
                  current_lines |-> current_lines]
            ELSE SplitLoop(words, ni, <<>>, hs, current_lines + 1,
                           width, size, font, max_lines)

\* text::split_text_at_lines: (head, tail), tail None when all fits.
split_text_at_lines(txt, width, size, font, max_lines) ==
    IF max_lines = 0 THEN [head |-> <<>>, tail |-> Some(txt)]
    ELSE LET words == split_whitespace(txt)
             e == SplitLoop(words, 1, <<>>, <<>>, 1, width, size, font, max_lines)
         IN IF e.line_buffer # <<>> /\ e.current_lines <= max_lines
            THEN [head |-> PushLine(e.head_str, e.line_buffer), tail |-> None]
            ELSE IF e.line_buffer = <<>>
            THEN [head |-> e.head_str, tail |-> Some(collect_rest(words, e.i))]
            ELSE [head |-> e.head_str,
                  tail |-> Some(join(<<join(e.line_buffer)>>
                                     \o (IF e.i <= Len(words)
                                         THEN <<collect_rest(words, e.i)>>
                                         ELSE <<>>)))]

\* The names /F.. and /Im.. that a content stream references.
FontRefs(content) ==
    {content[i].font : i \in {j \in DOMAIN content : content[j].op = "Tj"}}
ImageRefs(content) ==
    {content[i].image : i \in {j \in DOMAIN content : content[j].op = "Do"}}

\* -------------------------------------------------------------------- Image
\* core/image.rs Image: a JPEG (passthrough) and a PNG (raw samples).
Jpeg == [width |-> 2, height |-> 2, color_space |-> "DeviceRGB",
         bits_per_component |-> 8, data_len |-> 40,
         filter |-> Some("DCTDecode")]
Png == [width |-> 2, height |-> 2, color_space |-> "DeviceRGB",
        bits_per_component |-> 8, data_len |-> 12,
        filter |-> Some("FlateDecode")]

\* Length of the zlib stream of n bytes (ZlibEncoder, default level).
ZlibLen(n) == n + 11

\* document.rs embed_image: one stream XObject.
embed_image(w, image, object_id) ==
    LET flate == (~image.filter.some) \/ image.filter.v = "FlateDecode"
        data_len == IF flate THEN ZlibLen(image.data_len) ELSE image.data_len
        filter == IF flate THEN "FlateDecode" ELSE image.filter.v
        dict == << <<"Type", Name("XObject")>>,
                   <<"Subtype", Name("Image")>>,
                   <<"Width", Integer(image.width)>>,
                   <<"Height", Integer(image.height)>>,
                   <<"ColorSpace", Name(image.color_space)>>,
                   <<"BitsPerComponent", Integer(image.bits_per_component)>>,
                   <<"Filter", Name(filter)>> >>
    IN write_object(w, object_id,
                    Stream(dict, <<[op |-> "image", len |-> data_len]>>))

\* ------------------------------------------------------------ font embedding
\* document.rs subset_font: the subsetter keeps .notdef and the used glyphs.
subset_font(font, used_gids) ==
    [op |-> "ttf", glyphs |-> {0} \cup used_gids,
     len |-> 200 + 100 * Cardinality({0} \cup used_gids)]

full_font(font) ==
    [op |-> "ttf", glyphs |-> 0..(font.num_glyphs - 1), len |-> font.data_len]

\* The W array of embed_custom_font: [ gid [w] gid [w] ... ] in ascending
\* gid order with a used-glyph set, [ 0 [ w0 .. w(N-1) ] ] without.
w_array(font, used_gids) ==
    IF used_gids.some
    THEN LET sorted_gids == SortedSeq(used_gids.v)
         IN Array([i \in 1..(2 * Len(sorted_gids)) |->
                IF i % 2 = 1 THEN Integer(sorted_gids[(i + 1) \div 2])
                ELSE Array(<<Integer(pdf_width(font, sorted_gids[i \div 2]))>>)])
    ELSE Array(<<Integer(0),
                 Array([g \in 1..font.num_glyphs |->
                          Integer(pdf_width(font, g - 1))])>>)

\* document.rs embed_custom_font: FontFile2, FontDescriptor, CIDFontType2 and
\* Type0 as ids base_id .. base_id + 3; returns the Type0 id.
embed_custom_font(w, font, base_id, used_gids) ==
    LET font_file_id == base_id
        font_descriptor_id == base_id + 1
        cid_font_id == base_id + 2
        type0_font_id == base_id + 3
        font_data == IF used_gids.some THEN subset_font(font, used_gids.v)
                     ELSE full_font(font)
        font_file == Stream(<< <<"Length1", Integer(font_data.len)>> >>,
                            <<font_data>>)
        font_descriptor == Dictionary(<<
            <<"Type", Name("FontDescriptor")>>,
            <<"FontName", Name(font.name)>>,
            <<"Flags", Integer(4)>>,
            <<"FontBBox", Array(<<Integer(0), Integer(0 - 200),
                                  Integer(1000), Integer(800)>>)>>,
            <<"ItalicAngle", Real(0)>>,
            <<"Ascent", Integer(800)>>,
            <<"Descent", Integer(0 - 200)>>,
            <<"CapHeight", Integer(700)>>,
            <<"StemV", Integer(80)>>,
            <<"FontFile2", Reference(font_file_id)>> >>)
        cid_font == Dictionary(<<
            <<"Type", Name("Font")>>,
            <<"Subtype", Name("CIDFontType2")>>,
            <<"BaseFont", Name(font.name)>>,
            <<"CIDSystemInfo", Dictionary(<<
                <<"Registry", PdfString(<<"A", "d", "o", "b", "e">>)>>,
                <<"Ordering", PdfString(<<"I", "d", "e", "n", "t", "i", "t", "y">>)>>,
                <<"Supplement", Integer(0)>> >>)>>,
            <<"FontDescriptor", Reference(font_descriptor_id)>>,
            <<"CIDToGIDMap", Name("Identity")>>,
            <<"DW", Integer(1000)>>,
            <<"W", w_array(font, used_gids)>> >>)
        type0_font == Dictionary(<<
            <<"Type", Name("Font")>>,
            <<"Subtype", Name("Type0")>>,
            <<"BaseFont", Name(font.name)>>,
            <<"Encoding", Name("Identity-H")>>,
            <<"DescendantFonts", Array(<<Reference(cid_font_id)>>)>> >>)
        w1 == write_object(w, font_file_id, font_file)
        w2 == write_object(w1, font_descriptor_id, font_descriptor)
        w3 == write_object(w2, cid_font_id, cid_font)
        w4 == write_object(w3, type0_font_id, type0_font)
    IN [w |-> w4, type0_id |-> type0_font_id]

\* ----------------------------------------------------------- core Document
\* core/document.rs Document and DocumentMode.  The fields of
\* DocumentMode::Streaming are empty in a buffered document and pages is
\* empty in a streaming one; the PdfWriter is held next to the record.
Document_new ==
    [mode |-> "Buffered", pages |-> <<>>, fonts |-> <<>>,
     fonts_embedded |-> FALSE, images |-> <<>>,
     page_ids |-> <<>>, next_object_id |-> first_object_id,
     custom_font_ids |-> <<>>, image_ids |-> <<>>]

CatalogObj ==
    Dictionary(<< <<"Type", Name("Catalog")>>,
                  <<"Pages", Reference(pages_id)>> >>)

HelveticaObj ==
    Dictionary(<< <<"Type", Name("Font")>>,
                  <<"Subtype", Name("Type1")>>,
                  <<"BaseFont", Name("Helvetica")>> >>)

\* Document::streaming: Catalog and Helvetica are written at once.
Document_streaming ==
    [doc |-> [Document_new EXCEPT !.mode = "Streaming"],
     w |-> write_object(write_object(PdfWriter_new, catalog_id, CatalogObj),
                        font_id, HelveticaObj)]

\* Document::add_font
add_font(d, font) ==
    [doc |-> [d EXCEPT !.fonts = Append(@, font)], ret |-> Len(d.fonts)]

\* Document::add_image
add_image(d, w, image) ==
    IF d.mode = "Buffered"
    THEN [doc |-> [d EXCEPT !.images = Append(@, image)], w |-> w,
          ret |-> Len(d.images)]
    ELSE LET image_id == d.next_object_id
         IN [doc |-> [d EXCEPT !.next_object_id = @ + 1,
                               !.image_ids = Append(@, image_id)],
             w |-> embed_image(w, image, image_id),
             ret |-> Len(d.image_ids)]

\* A faulty variant of the loop: each font is embedded as a subset holding
\* only .notdef, as the buffered path does for a font no page uses.
RECURSIVE EmbedFontsStreamingSubset(_, _, _, _)
EmbedFontsStreamingSubset(w, fonts, next_object_id, custom_font_ids) ==
    IF fonts = <<>>
    THEN [w |-> w, next_object_id |-> next_object_id,
          custom_font_ids |-> custom_font_ids]
    ELSE LET e == embed_custom_font(w, Head(fonts), next_object_id, Some({}))
         IN EmbedFontsStreamingSubset(e.w, Tail(fonts), next_object_id + 4,
                                      Append(custom_font_ids, e.type0_id))

\* The loop of add_page that embeds every registered font (full font, no
\* used-glyph set), four ids each.
RECURSIVE EmbedFontsStreaming(_, _, _, _)
EmbedFontsStreaming(w, fonts, next_object_id, custom_font_ids) ==
    IF fonts = <<>>
    THEN [w |-> w, next_object_id |-> next_object_id,
          custom_font_ids |-> custom_font_ids]
    ELSE LET e == embed_custom_font(w, Head(fonts), next_object_id, None)
         IN EmbedFontsStreaming(e.w, Tail(fonts), next_object_id + 4,
                                Append(custom_font_ids, e.type0_id))

\* /Resources /Font: F1 and F{i+2} for the i-th Type0 id.
FontResources(type0_ids) ==
    << <<"F1", Reference(font_id)>> >>
    \o [i \in 1..Len(type0_ids) |->
          <<"F" \o ToString(i + 1), Reference(type0_ids[i])>>]

\* /Resources /XObject: Im{k} for every used image index k that is
\* registered (image_ids.get(k) is Some).
XObjectResources(used_images, image_ids) ==
    LET ks == SortedSeq({k \in used_images : k < Len(image_ids)})
    IN [i \in 1..Len(ks) |->
          <<"Im" \o ToString(ks[i]), Reference(image_ids[ks[i] + 1])>>]

ResourcesDict(font_resources, xobject_resources) ==
    << <<"Font", Dictionary(font_resources)>> >>
    \o (IF xobject_resources # <<>>
        THEN << <<"XObject", Dictionary(xobject_resources)>> >>
        ELSE <<>>)

PageObj(page, resources_dict, content_id) ==
    Dictionary(<< <<"Type", Name("Page")>>,
                  <<"Parent", Reference(pages_id)>>,
                  <<"MediaBox", Array(<<Integer(0), Integer(0),
                                        Real(page.width), Real(page.height)>>)>>,
                  <<"Resources", Dictionary(resources_dict)>>,
                  <<"Contents", Reference(content_id)>> >>)

PagesObj(page_ids) ==
    Dictionary(<< <<"Type", Name("Pages")>>,
                  <<"Kids", Array([i \in 1..Len(page_ids) |->
                                      Reference(page_ids[i])])>>,
                  <<"Count", Integer(Len(page_ids))>> >>)

\* Document::add_page
add_page(d, w, page) ==
    IF d.mode = "Buffered"
    THEN [doc |-> [d EXCEPT !.pages = Append(@, page)], w |-> w]
    ELSE LET lazy == (~d.fonts_embedded) /\ d.fonts # <<>>
             emb == IF lazy
                    THEN EmbedFontsStreaming(w, d.fonts, d.next_object_id,
                                             d.custom_font_ids)
                    ELSE [w |-> w, next_object_id |-> d.next_object_id,
                          custom_font_ids |-> d.custom_font_ids]
             content_id == emb.next_object_id
             w1 == write_object(emb.w, content_id, Stream(<<>>, page.content))
             resources_dict ==
                 ResourcesDict(FontResources(emb.custom_font_ids),
                               XObjectResources(page.used_images, d.image_ids))
             page_id == content_id + 1
             w2 == write_object(w1, page_id,
                                PageObj(page, resources_dict, content_id))
         IN [doc |-> [d EXCEPT !.fonts_embedded = @ \/ lazy,
                               !.custom_font_ids = emb.custom_font_ids,
                               !.next_object_id = page_id + 1,
                               !.page_ids = Append(@, page_id)],
             w |-> w2]

\* Document::finalize: an error in buffered mode; in streaming mode the
\* Pages object, then xref and trailer.
\* Faulty variant of finalize: it does not look at the mode.
finalize_any_mode(d, w) ==
    [ok |-> TRUE,
     w |-> write_xref_and_trailer(
               write_object(w, pages_id, PagesObj(d.page_ids)),
               catalog_id)]

\* A faulty variant of finalize: the xref table and trailer are written
\* before the Pages object.
finalize_xref_first(d, w) ==
    IF d.mode = "Buffered"
    THEN [ok |-> FALSE, w |-> w]
    ELSE [ok |-> TRUE,
          w |-> write_object(write_xref_and_trailer(w, catalog_id),
                             pages_id, PagesObj(d.page_ids))]

\* Document::finalize: an error in buffered mode; in streaming mode the Pages
\* object, then xref and trailer.
finalize(d, w) ==
    IF d.mode = "Buffered"
    THEN [ok |-> FALSE, w |-> w]
    ELSE [ok |-> TRUE,
          w |-> write_xref_and_trailer(
                    write_object(w, pages_id, PagesObj(d.page_ids)),
                    catalog_id)]

\* write_to: font_glyph_usage, the union of the pages' used_glyphs per font
\* index (only indices that some page has an entry for).
font_glyph_usage(pages) ==
    LET keys == UNION {DOMAIN pages[i].used_glyphs : i \in DOMAIN pages}
    IN [k \in keys |->
          UNION {pages[i].used_glyphs[k] :
                   i \in {j \in DOMAIN pages : k \in DOMAIN pages[j].used_glyphs}}]

\* font_glyph_usage.get(&i)
UsageGet(usage, i) == IF i \in DOMAIN usage THEN Some(usage[i]) ELSE None

\* write_to: ids of the custom fonts (base ids), images and pages.
BufferedFontBase(n) == first_object_id + 4 * n
\* Faulty variant of BufferedImageId: a font is counted as one object.
BufferedImageIdOnePerFont(nfonts, k) == first_object_id + nfonts + k
BufferedImageId(nfonts, k) == first_object_id + 4 * nfonts + k
\* Faulty variant of BufferedContentId: the images are not counted.
BufferedContentIdNoImages(nfonts, nimages, p) == first_object_id + 4 * nfonts + 2 * p
BufferedContentId(nfonts, nimages, p) == first_object_id + 4 * nfonts + nimages + 2 * p
BufferedPageId(nfonts, nimages, p) == BufferedContentId(nfonts, nimages, p) + 1

RECURSIVE EmbedFontsBuffered(_, _, _, _, _)
EmbedFontsBuffered(w, fonts, i, usage, type0_font_ids) ==
    IF i >= Len(fonts) THEN [w |-> w, type0_font_ids |-> type0_font_ids]
    ELSE LET e == embed_custom_font(w, fonts[i + 1], BufferedFontBase(i),
                                    UsageGet(usage, i))
         IN EmbedFontsBuffered(e.w, fonts, i + 1, usage,
                               Append(type0_font_ids, e.type0_id))

RECURSIVE EmbedImagesBuffered(_, _, _, _)
EmbedImagesBuffered(w, images, i, image_object_ids) ==
    IF i >= Len(images) THEN w
    ELSE EmbedImagesBuffered(embed_image(w, images[i + 1], image_object_ids[i + 1]),
                             images, i + 1, image_object_ids)

RECURSIVE WritePagesBuffered(_, _, _, _, _, _)
WritePagesBuffered(w, pages, i, page_object_ids, font_resources, image_object_ids) ==
    IF i >= Len(pages) THEN w
    ELSE LET page == pages[i + 1]
             content_id == page_object_ids[i + 1][1]
             page_id == page_object_ids[i + 1][2]
             w1 == write_object(w, content_id, Stream(<<>>, page.content))
             resources_dict ==
                 ResourcesDict(font_resources,
                               XObjectResources(page.used_images, image_object_ids))
             w2 == write_object(w1, page_id,
                                PageObj(page, resources_dict, content_id))
         IN WritePagesBuffered(w2, pages, i + 1, page_object_ids,
                               font_resources, image_object_ids)

\* Faulty variant of page_refs: the first component of each pair is taken.
page_refs_content(page_object_ids) ==
    [p \in 1..Len(page_object_ids) |-> page_object_ids[p][1]]

\* write_to: the ids /Kids refers to, the page_id of each (content_id, page_id)
page_refs(page_object_ids) ==
    [p \in 1..Len(page_object_ids) |-> page_object_ids[p][2]]

\* Document::write_to: an error in streaming mode; in buffered mode a new
\* file with every object, xref and trailer.
write_to(d) ==
    IF d.mode = "Streaming"
    THEN [ok |-> FALSE, w |-> NoWriter]
    ELSE LET nf == Len(d.fonts)
             ni == Len(d.images)
             image_object_ids == [k \in 1..ni |-> BufferedImageId(nf, k - 1)]
             page_object_ids ==
                 [p \in 1..Len(d.pages) |->
                    <<BufferedContentId(nf, ni, p - 1), BufferedPageId(nf, ni, p - 1)>>]
             w1 == write_object(PdfWriter_new, catalog_id, CatalogObj)
             w2 == write_object(w1, pages_id,
                       PagesObj(page_refs(page_object_ids)))
             w3 == write_object(w2, font_id, HelveticaObj)
             ef == EmbedFontsBuffered(w3, d.fonts, 0, font_glyph_usage(d.pages), <<>>)
             w4 == EmbedImagesBuffered(ef.w, d.images, 0, image_object_ids)
             w5 == WritePagesBuffered(w4, d.pages, 0, page_object_ids,
                                      FontResources(ef.type0_font_ids),
                                      image_object_ids)
         IN [ok |-> TRUE, w |-> write_xref_and_trailer(w5, catalog_id)]

\* ------------------------------------------------------- layout (layout.rs)
\* f64::INFINITY; sums and differences that involve it stay infinite.
INFINITY == 1000000
is_finite(x) == x < INFINITY
Fadd(a, b) == IF a >= INFINITY \/ b >= INFINITY THEN INFINITY ELSE a + b
Fsub(a, b) == IF a >= INFINITY THEN INFINITY ELSE a - b

Size(width, height) == [width |-> width, height |-> height]
Rect(x, y, width, height) == [x |-> x, y |-> y, width |-> width, height |-> height]
PageContext(current, total) == [current |-> current, total |-> total]
PageContext_default == [current |-> 1, total |-> 1]

\* Constraints::loose
loose(width, height) ==
    [min_width |-> 0, max_width |-> width, min_height |-> 0, max_height |-> height]

\* SplitAction
Fit == [action |-> "Fit"]
Push == [action |-> "Push"]
Split(head, tail) == [action |-> "Split", head |-> head, tail |-> tail]

\* The layout nodes.
Column(children, spacing) ==
    [k |-> "Column", children |-> children, spacing |-> spacing]
Row(children, spacing) ==
    [k |-> "Row", children |-> children, spacing |-> spacing]
TextNode(txt, size, color, background_color) ==
    [k |-> "Text", text |-> txt, size |-> size, color |-> color,
     background_color |-> background_color]
Container(child, padding, border_width) ==
    [k |-> "Container", child |-> child, padding |-> padding,
     border_width |-> border_width]
ImageNode(image_index, width, height) ==
    [k |-> "Image", image_index |-> image_index, width |-> width, height |-> height]
TableNode(table) == [k |-> "Table", table |-> table]
PageNumberNode(format, size, align) ==
    [k |-> "PageNumber", format |-> format, size |-> size, align |-> align]

\* table.rs: TableColumn, TableSettings::default, Table::new, Table::add_row
TableColumn(header, width) == [header |-> header, width |-> width]
TableSettings_default ==
    [padding |-> 5, border_width |-> 1, header_height |-> 30,
     cell_height |-> 20, font_size |-> 10]
Table_new(columns) ==
    [columns |-> columns, rows |-> <<>>, settings |-> TableSettings_default]
add_row(table, row) ==
    [table EXCEPT !.rows = Append(@,
        [j \in 1..Len(table.columns) |-> IF j <= Len(row) THEN row[j] ELSE <<>>])]

\* The column a cell is laid out in is 100 wide when the row is longer than
\* the column list; a row takes 8 more than its lines and its padding.
default_col_width == 100
row_extra == 8

\* The height of a table row: the tallest cell's lines, padding, row_extra.
RowHeight(table, row, font) ==
    LET s == table.settings
        lines(j) == calculate_text_lines(row[j],
                       (IF j <= Len(table.columns) THEN table.columns[j].width
                        ELSE default_col_width) - 2 * s.padding,
                       s.font_size, font)
        RECURSIVE MaxLines(_)
        MaxLines(j) == IF j = 0 THEN 1 ELSE Max(MaxLines(j - 1), lines(j))
    IN MaxLines(Len(row)) * Leading(s.font_size) + 2 * s.padding + row_extra

TableWidth(table) == SumSeq([j \in 1..Len(table.columns) |-> table.columns[j].width])

\* usize::to_string
RECURSIVE to_string(_)
to_string(n) ==
    LET d == <<"0", "1", "2", "3", "4", "5", "6", "7", "8", "9">>
    IN IF n < 10 THEN <<d[n + 1]>> ELSE to_string(n \div 10) \o <<d[(n % 10) + 1]>>

PagePlaceholder == <<"{", "p", "a", "g", "e", "}">>
TotalPlaceholder == <<"{", "t", "o", "t", "a", "l", "}">>

\* The margin Column::split keeps free at the bottom.
safety_margin == 5

RECURSIVE measure(_, _, _)
measure(n, constraints, font) ==
    CASE n.k = "Column" ->
           LET sz == [i \in 1..Len(n.children) |-> measure(n.children[i], constraints, font)]
               RECURSIVE W(_)
               W(i) == IF i = 0 THEN 0 ELSE Max(W(i - 1), sz[i].width)
               RECURSIVE H(_)
               H(i) == IF i = 0 THEN 0 ELSE H(i - 1) + sz[i].height + n.spacing
           IN Size(Max(W(Len(sz)), constraints.min_width),
                   IF n.children # <<>> THEN H(Len(sz)) - n.spacing ELSE H(0))
      [] n.k = "Row" ->
           LET sz == [i \in 1..Len(n.children) |-> measure(n.children[i], constraints, font)]
               RECURSIVE W(_)
               W(i) == IF i = 0 THEN 0 ELSE Fadd(W(i - 1), Fadd(sz[i].width, n.spacing))
               RECURSIVE H(_)
               H(i) == IF i = 0 THEN 0 ELSE Max(H(i - 1), sz[i].height)
           IN Size(IF n.children # <<>> THEN Fsub(W(Len(sz)), n.spacing) ELSE W(0),
                   H(Len(sz)))
      [] n.k = "Text" ->
           LET raw_width == measure_text(font, n.text, n.size)
               width == IF is_finite(constraints.max_width)
                        THEN Min(raw_width, constraints.max_width)
                        ELSE raw_width
               lines == calculate_text_lines(n.text, width, n.size, font)
           IN Size(width, lines * Leading(n.size))
      [] n.k = "Container" ->
           LET reduction == (n.padding + n.border_width) * 2
               child_constraints ==
                   [min_width |-> Max(Fsub(constraints.min_width, reduction), 0),
                    max_width |-> Max(Fsub(constraints.max_width, reduction), 0),
                    min_height |-> Max(Fsub(constraints.min_height, reduction), 0),
                    max_height |-> Max(Fsub(constraints.max_height, reduction), 0)]
               child_size == measure(n.child, child_constraints, font)
           IN Size(Fadd(child_size.width, reduction), child_size.height + reduction)
      [] n.k = "Image" ->
           Size(Min(n.width, constraints.max_width), Min(n.height, constraints.max_height))
      [] n.k = "Table" ->
           LET RECURSIVE H(_)
               H(i) == IF i = 0 THEN n.table.settings.header_height
                       ELSE H(i - 1) + RowHeight(n.table, n.table.rows[i], font)
           IN Size(TableWidth(n.table), H(Len(n.table.rows)))
      [] n.k = "PageNumber" ->
           LET sample_text == replace(replace(n.format, PagePlaceholder, <<"9", "9", "9">>),
                                      TotalPlaceholder, <<"9", "9", "9">>)
               lines == calculate_text_lines(sample_text, constraints.max_width, n.size, font)
           IN Size(constraints.max_width, lines * Leading(n.size))

\* (available_height / leading).floor() as usize
MaxLinesIn(available_height, leading) ==
    IF available_height <= 0 THEN 0 ELSE available_height \div leading

\* The row loop of TableNode::split: the index of the first row that does not
\* fit in data_available, 0 when every row fits.
\* Faulty variant of TableScan: a row that fills the space exactly does not fit.
RECURSIVE TableScanStrict(_, _, _, _, _)
TableScanStrict(table, i, current_height, data_available, font) ==
    IF i > Len(table.rows) THEN 0
    ELSE LET row_height == RowHeight(table, table.rows[i], font)
         IN IF current_height + row_height >= data_available THEN i
            ELSE TableScanStrict(table, i + 1, current_height + row_height,
                                 data_available, font)

RECURSIVE TableScan(_, _, _, _, _)
TableScan(table, i, current_height, data_available, font) ==
    IF i > Len(table.rows) THEN 0
    ELSE LET row_height == RowHeight(table, table.rows[i], font)
         IN IF current_height + row_height > data_available THEN i
            ELSE TableScan(table, i + 1, current_height + row_height, data_available, font)

RECURSIVE split(_, _, _, _)
RECURSIVE ColumnScan(_, _, _, _, _, _)

\* A faulty variant of the child loop: a child that answers Push is kept in
\* the head and the break is put after it.
RECURSIVE ColumnScanAfter(_, _, _, _, _, _)
ColumnScanAfter(n, i, used_height, available_width, available_height, font) ==
    IF i > Len(n.children) THEN [split_index |-> 0, parts |-> None]
    ELSE LET child == n.children[i]
             size == measure(child, loose(available_width, INFINITY), font)
             spacing == IF i > 1 THEN n.spacing ELSE 0
         IN IF used_height + spacing + size.height > available_height - safety_margin
            THEN LET remaining_height == available_height - (used_height + spacing)
                 IN IF remaining_height <= 0
                    THEN [split_index |-> i, parts |-> None]
                    ELSE LET r == split(child, available_width, remaining_height, font)
                         IN (CASE r.action = "Fit" ->
                                    ColumnScanAfter(n, i + 1, used_height + spacing + size.height,
                                                    available_width, available_height, font)
                               [] r.action = "Push" -> [split_index |-> i + 1, parts |-> None]
                               [] r.action = "Split" ->
                                    [split_index |-> i, parts |-> Some(<<r.head, r.tail>>)])
            ELSE ColumnScanAfter(n, i + 1, used_height + spacing + size.height,
                                 available_width, available_height, font)

\* The child loop of Column::split: split_index (0 when the loop ends without
\* one) and split_node_parts.
ColumnScan(n, i, used_height, available_width, available_height, font) ==
    IF i > Len(n.children) THEN [split_index |-> 0, parts |-> None]
    ELSE LET child == n.children[i]
             size == measure(child, loose(available_width, INFINITY), font)
             spacing == IF i > 1 THEN n.spacing ELSE 0
         IN IF used_height + spacing + size.height > available_height - safety_margin
            THEN LET remaining_height == available_height - (used_height + spacing)
                 IN IF remaining_height <= 0
                    THEN [split_index |-> i, parts |-> None]
                    ELSE LET r == split(child, available_width, remaining_height, font)
                         IN (CASE r.action = "Fit" ->
                                    ColumnScan(n, i + 1, used_height + spacing + size.height,
                                               available_width, available_height, font)
                               [] r.action = "Push" -> [split_index |-> i, parts |-> None]
                               [] r.action = "Split" ->
                                    [split_index |-> i, parts |-> Some(<<r.head, r.tail>>)])
            ELSE ColumnScan(n, i + 1, used_height + spacing + size.height,
                            available_width, available_height, font)

split(n, available_width, available_height, font) ==
    CASE n.k = "Column" ->
           LET e == ColumnScan(n, 1, 0, available_width, available_height, font)
               idx == e.split_index
               head_children ==
                   SubSeq(n.children, 1, idx - 1)
                   \o (IF e.parts.some THEN <<e.parts.v[1]>> ELSE <<>>)
               tail_children ==
                   IF e.parts.some
                   THEN <<e.parts.v[2]>> \o SubSeq(n.children, idx + 1, Len(n.children))
                   ELSE SubSeq(n.children, idx, Len(n.children))
           IN IF idx # 0
              THEN IF head_children = <<>> THEN Push
                   ELSE Split(Column(head_children, n.spacing),
                              Column(tail_children, n.spacing))
              ELSE Fit
      [] n.k = "Row" ->
           IF measure(n, loose(INFINITY, INFINITY), font).height <= available_height
           THEN Fit ELSE Push
      [] n.k = "Text" ->
           LET max_lines == MaxLinesIn(available_height, Leading(n.size))
               r == split_text_at_lines(n.text, available_width, n.size, font, max_lines)
           IN IF max_lines = 0 THEN Push
              ELSE IF r.tail.some
                   THEN Split(TextNode(r.head, n.size, n.color, n.background_color),
                              TextNode(r.tail.v, n.size, n.color, n.background_color))
                   ELSE Fit
      [] n.k = "Container" ->
           LET reduction == (n.padding + n.border_width) * 2
               child_avail_h == available_height - reduction
               child_avail_w == available_width - reduction
               r == split(n.child, child_avail_w, child_avail_h, font)
           IN IF child_avail_h <= 0 THEN Push
              ELSE (CASE r.action = "Fit" -> Fit
                      [] r.action = "Push" -> Push
                      [] r.action = "Split" ->
                           Split(Container(r.head, n.padding, n.border_width),
                                 Container(r.tail, n.padding, n.border_width)))
      [] n.k = "Image" ->
           IF n.height <= available_height THEN Fit ELSE Push
      [] n.k = "Table" ->
           LET data_available == available_height - n.table.settings.header_height
               idx == TableScan(n.table, 1, 0, data_available, font)
           IN IF data_available <= 0 THEN Push
              ELSE IF idx = 1 THEN Push
              ELSE IF idx # 0
                   THEN Split(TableNode([n.table EXCEPT !.rows = SubSeq(@, 1, idx - 1)]),
                              TableNode([n.table EXCEPT !.rows = SubSeq(@, idx, Len(@))]))
                   ELSE Fit
      [] n.k = "PageNumber" ->
           IF calculate_text_lines(n.format, available_width, n.size, font)
                 * Leading(n.size) <= available_height
           THEN Fit ELSE Push

\* s ++ t ++ .. for a sequence of sequences
RECURSIVE Concat(_)
Concat(ss) == IF ss = <<>> THEN <<>> ELSE Head(ss) \o Concat(Tail(ss))

\* Page::draw_table, the header: the band, then per column the header text
\* (size 10) and the cell border, current_x advancing by the column width.
TableHeaderOps(table, x, current_y, font, font_index) ==
    LET s == table.settings
        text_y == current_y - (s.header_height \div 2) - 4
        current_x(j) == x + SumSeq([k \in 1..(j - 1) |-> table.columns[k].width])
    IN <<RectFill(x, current_y - s.header_height, TableWidth(table), s.header_height, 9),
         RectStroke(x, current_y - s.header_height, TableWidth(table), s.header_height,
                    s.border_width)>>
       \o Concat([j \in 1..Len(table.columns) |->
             <<TjWithFont(table.columns[j].header, current_x(j) + s.padding, text_y,
                          10, font_index, font),
               RectStroke(current_x(j), current_y - s.header_height,
                          table.columns[j].width, s.header_height, s.border_width)>>])

\* Page::draw_table, one row at current_y: per cell the wrapped text and the
\* cell border.
TableRowOps(table, row, x, current_y, font, font_index) ==
    LET s == table.settings
        row_height == RowHeight(table, row, font)
        width(j) == IF j <= Len(table.columns) THEN table.columns[j].width
                    ELSE default_col_width
        current_x(j) == x + SumSeq([k \in 1..(j - 1) |-> width(k)])
    IN Concat([j \in 1..Len(row) |->
          MultilineOps(row[j], current_x(j) + s.padding,
                       current_y - s.padding - row_extra,
                       width(j) - 2 * s.padding, s.font_size, font_index, font)
          \o <<RectStroke(current_x(j), current_y - row_height, width(j), row_height,
                          s.border_width)>>])

\* Page::draw_table: returns the page and the y position after the table.
draw_table(p, table, x, y, font, font_index) ==
    LET s == table.settings
        row_y(i) == y - s.header_height
                    - SumSeq([k \in 1..(i - 1) |-> RowHeight(table, table.rows[k], font)])
        ops == TableHeaderOps(table, x, y, font, font_index)
               \o Concat([i \in 1..Len(table.rows) |->
                     TableRowOps(table, table.rows[i], x, row_y(i), font, font_index)])
    IN [page |-> Paint(p, ops), y |-> row_y(Len(table.rows) + 1)]

\* Page::draw_rect_filled and Page::text_multiline_colored are called by
\* TextNode::render; the colour only changes the operators around the text.
draw_rect_filled(p, x, y, w, h, color) == draw_fill_rect(p, x, y, w, h, color)
text_multiline_colored(p, txt, x, y, width, size, font_index, font, color) ==
    text_multiline(p, txt, x, y, width, size, font_index, font)

Black == 0

RECURSIVE render(_, _, _, _, _, _)
RECURSIVE ColumnRender(_, _, _, _, _, _, _, _)
RECURSIVE RowRender(_, _, _, _, _, _, _, _)

ColumnRender(n, i, page, y, area, font, font_index, context) ==
    IF i > Len(n.children) THEN page
    ELSE LET child == n.children[i]
             size == measure(child, loose(area.width, INFINITY), font)
             child_area == Rect(area.x, y, area.width, size.height)
         IN ColumnRender(n, i + 1,
                         render(child, page, child_area, font, font_index, context),
                         y - (size.height + n.spacing), area, font, font_index, context)

RowRender(n, i, page, x, area, font, font_index, context) ==
    IF i > Len(n.children) THEN page
    ELSE LET child == n.children[i]
             size == measure(child, loose(INFINITY, area.height), font)
             child_area == Rect(x, area.y, size.width, area.height)
         IN RowRender(n, i + 1,
                      render(child, page, child_area, font, font_index, context),
                      Fadd(x, Fadd(size.width, n.spacing)), area, font, font_index, context)

render(n, page, area, font, font_index, context) ==
    CASE n.k = "Column" ->
           ColumnRender(n, 1, page, area.y, area, font, font_index, context)
      [] n.k = "Row" ->
           RowRender(n, 1, page, area.x, area, font, font_index, context)
      [] n.k = "Text" ->
           LET p1 == IF n.background_color.some
                     THEN draw_rect_filled(page, area.x, area.y - area.height,
                                           area.width, area.height, n.background_color.v)
                     ELSE page
           IN text_multiline_colored(p1, n.text, area.x, area.y, area.width, n.size,
                                     font_index, font,
                                     IF n.color.some THEN n.color.v ELSE Black)
      [] n.k = "Container" ->
           LET p1 == IF n.border_width > 0
                     THEN draw_rect(page, area.x, area.y - area.height, area.width,
                                    area.height, n.border_width)
                     ELSE page
               reduction == n.padding + n.border_width
               child_area == Rect(Fadd(area.x, reduction), area.y - reduction,
                                  Fsub(area.width, reduction * 2),
                                  area.height - reduction * 2)
           IN render(n.child, p1, child_area, font, font_index, context)
      [] n.k = "Image" ->
           draw_image(page, n.image_index, area.x, area.y - area.height,
                      area.width, area.height)
      [] n.k = "Table" ->
           draw_table(page, n.table, area.x, area.y, font, font_index).page
      [] n.k = "PageNumber" ->
           LET resolved_text ==
                   replace(replace(n.format, PagePlaceholder, to_string(context.current)),
                           TotalPlaceholder, to_string(context.total))
               text_width == measure_text(font, resolved_text, n.size)
               x == IF n.align = "right" THEN Fsub(Fadd(area.x, area.width), text_width)
                    ELSE IF n.align = "center"
                         THEN Fadd(area.x, Fsub(area.width, text_width) \div 2)
                         ELSE area.x
           IN text_multiline(page, resolved_text, x, area.y, area.width, n.size,
                             font_index, font)

\* lib.rs Page::render_layout
render_layout(page, node, x, y, width, font, font_index, current_page, total_pages) ==
    LET context == IF current_page.some /\ total_pages.some
                   THEN PageContext(current_page.v, total_pages.v)
                   ELSE PageContext_default
        size == measure(node, loose(width, INFINITY), font)
    IN render(node, page, Rect(x, y, size.width, size.height), font, font_index, context)

\* ------------------------------------------------------------- page inputs
\* The pages the callers build: custom-font text of font 0, the same with
\* another text and built-in text, and custom-font text of font 1 with
\* image 0.
PageA == text_with_font(Page_new(595, 842), <<"a", "b">>, 50, 800, 10, 0, TheFont)
PageB == text(text_with_font(Page_new(595, 842), <<"b", "c">>, 50, 800, 10, 0, TheFont),
              <<"H", "(", "i", ")">>, 50, 700, 10)
PageC == draw_image(text_with_font(Page_new(595, 842), <<"c">>, 50, 800, 10, 1, TheFont),
                    0, 50, 700, 2, 2)
PageInputs == {PageA, PageB, PageC}
Images == {Jpeg}

\* ------------------------------------------------------------ layout inputs
TxtA == <<"a", "a", " ", "b", "b", " ", "c", "c">>
TxtB == <<"a", "a", "a", "a", "a", "a", " ", "b">>
TxtLong == <<"a", "a", "a", "a", " ", "b", "b", "b", "b", " ", "c", "c", "c", "c", " ",
             "a", "a", "a", "a", " ", "b", "b", "b", "b", " ", "c", "c", "c", "c">>
TxtWide == <<"a", "a", "a", "a", "a", "a", " ", "b", "b", "b", "b", "b", "b">>
TxtEmpty == <<>>

PlainText(txt) == TextNode(txt, 10, None, None)

PageOfTotal == PagePlaceholder \o <<"/">> \o TotalPlaceholder
BodyPageOfTotal == <<"p">> \o PageOfTotal
PageWordsTotal ==
    <<"p", "a", "g", "e", " ">> \o PagePlaceholder \o <<" ", "o", "f", " ">>
    \o TotalPlaceholder

SmallTable ==
    add_row(add_row(add_row(
        Table_new(<<TableColumn(<<"a">>, 30), TableColumn(<<"b">>, 30)>>),
        <<<<"a", "a">>, <<"b">>>>),
        <<<<"a", "a", " ", "b", "b", " ", "c", "c">>, <<"c">>>>),
        <<<<"c">>>>)

\* ------------------------------------------- render_flow (lib.rs), by steps
side_margin == 50

FlowBodies ==
    { PlainText(TxtLong),
      PlainText(TxtEmpty),
      Column(<<PlainText(TxtA), PlainText(TxtLong),
               PageNumberNode(BodyPageOfTotal, 10, "left")>>, 2),
      Column(<<ImageNode(0, 20, 20),
               Row(<<PlainText(<<"a", "a">>), PlainText(<<"b", "b">>)>>, 2),
               PlainText(TxtB)>>, 0),
      Container(TextNode(TxtLong, 10, Some(1), Some(9)), 2, 1),
      TableNode(SmallTable) }

FlowHeaders ==
    { None, Some(PageNumberNode(PageOfTotal, 10, "right")), Some(PlainText(TxtWide)) }

FlowFooters ==
    { None, Some(PageNumberNode(PageOfTotal, 10, "center")),
      Some(PageNumberNode(PageWordsTotal, 10, "left")) }

\* PageTemplate: margin_top and margin_bottom, None when no template is given.
FlowTemplates == { None, Some([margin_top |-> 10, margin_bottom |-> 10]) }

FlowSizes == { <<160, 40>>, <<140, 60>>, <<160, 100>> }

NoFlow == [pc |-> "idle", marks |-> <<>>]
NoLay == [pc |-> "idle"]

\* ------------------------------------------------- host Document (lib.rs)
\* Number of objects and xref sections in the file.
Written(w) == Len(w.file) + Len(w.tail)

\* The result of a call: Ok or Err, the value returned, the number of objects
\* and xref sections the call wrote; with the mode of the document at the
\* call and whether a terminal call had returned Ok before it.
Result(op, ok, ret, wrote) ==
    [op |-> op, ok |-> ok, ret |-> ret, wrote |-> wrote,
     mode |-> IF inner.some THEN inner.v.mode ELSE "None",
     after |-> finished]

\* The add_font, add_image and add_page calls that returned Ok so far.
Calls == Len(inner.v.fonts) + Len(given) + Len(added)

Init ==
    /\ \/ inner = Some(Document_new) /\ writer = NoWriter
       \/ inner = Some(Document_streaming.doc) /\ writer = Document_streaming.w
    /\ last = [op |-> "new", ok |-> TRUE, ret |-> 0, wrote |-> 0,
               mode |-> inner.v.mode, after |-> FALSE]
    /\ finished = FALSE
    /\ added = <<>>
    /\ given = <<>>
    /\ flow = NoFlow
    /\ lay = NoLay
    /\ OthersIdle

\* lib.rs Document::add_font
AddFont ==
    /\ inner.some => Calls < MaxCalls
    /\ IF inner.some
       THEN \E r \in {add_font(inner.v, TheFont)} :
               /\ inner' = Some(r.doc)
               /\ last' = Result("add_font", TRUE, r.ret, 0)
       ELSE /\ inner' = inner
            /\ last' = Result("add_font", FALSE, 0, 0)
    /\ UNCHANGED <<writer, finished, added, given, flow, lay, others>>

\* lib.rs Document::add_image
AddImage ==
    /\ inner.some => Calls < MaxCalls
    /\ \E image \in Images :
         IF inner.some
         THEN \E r \in {add_image(inner.v, writer, image)} :
                 /\ inner' = Some(r.doc)
                 /\ writer' = r.w
                 /\ last' = Result("add_image", TRUE, r.ret,
                                   Written(r.w) - Written(writer))
                 /\ given' = Append(given, image)
         ELSE /\ inner' = inner
              /\ writer' = writer
              /\ last' = Result("add_image", FALSE, 0, 0)
              /\ given' = given
    /\ UNCHANGED <<finished, added, flow, lay, others>>

\* lib.rs Document::add_page
AddPage ==
    /\ inner.some => Calls < MaxCalls
    /\ \E page \in PageInputs :
         IF inner.some
         THEN \E r \in {add_page(inner.v, writer, page)} :
                 /\ inner' = Some(r.doc)
                 /\ writer' = r.w
                 /\ last' = Result("add_page", TRUE, 0,
                                   Written(r.w) - Written(writer))
                 /\ added' = Append(added,
                        [page |-> page, nfonts |-> Len(inner.v.fonts),
                         nimages |-> Len(given)])
         ELSE /\ inner' = inner
              /\ writer' = writer
              /\ last' = Result("add_page", FALSE, 0, 0)
              /\ added' = added
    /\ UNCHANGED <<finished, given, flow, lay, others>>

\* lib.rs Document::finalize: self.inner.take(), then the core finalize.
Finalize ==
    /\ IF inner.some
       THEN \E r \in {finalize(inner.v, writer)} :
               /\ writer' = r.w
               /\ last' = Result("finalize", r.ok, 0,
                                 Written(r.w) - Written(writer))
               /\ finished' = (finished \/ r.ok)
       ELSE /\ writer' = writer
            /\ last' = Result("finalize", FALSE, 0, 0)
            /\ finished' = finished
    /\ inner' = None
    /\ UNCHANGED <<added, given, flow, lay, others>>

\* lib.rs Document::write_to: &self, the core write_to on a borrowed inner.
WriteTo ==
    /\ IF inner.some
       THEN \E r \in {write_to(inner.v)} :
               /\ writer' = (IF r.ok THEN r.w ELSE writer)
               /\ last' = Result("write_to", r.ok, 0,
                                 IF r.ok THEN Written(r.w) ELSE 0)
               /\ finished' = (finished \/ r.ok)
       ELSE /\ writer' = writer
            /\ last' = Result("write_to", FALSE, 0, 0)
            /\ finished' = finished
    /\ UNCHANGED <<inner, added, given, flow, lay, others>>

Next == AddFont \/ AddImage \/ AddPage \/ Finalize \/ WriteTo

Spec == Init /\ [][Next]_vars

\* ------------------------------------------------ render_flow, the steps
\* The height render_flow reserves for the header or the footer.
ReservedHeight(node, width) ==
    IF node.some THEN measure(node.v, loose(width, INFINITY), MonoFont).height ELSE 0

\* render_flow up to the first pass: the reserved heights and the frame.
FlowBegin ==
    /\ flow.pc = "start"
    /\ \E margin_top \in {IF flow.template.some THEN flow.template.v.margin_top ELSE 0},
          margin_bottom \in {IF flow.template.some THEN flow.template.v.margin_bottom ELSE 0},
          header_height \in {ReservedHeight(flow.header, flow.width)},
          footer_height \in {ReservedHeight(flow.footer, flow.width)} :
         LET top_reserved == margin_top + header_height
             bottom_reserved == margin_bottom + footer_height
         IN flow' = [flow EXCEPT
                !.pc = "count",
                !.margin_top = margin_top,
                !.margin_bottom = margin_bottom,
                !.header_height = header_height,
                !.footer_height = footer_height,
                !.body_available_height = flow.height - top_reserved - bottom_reserved,
                !.body_start_y = flow.height - top_reserved,
                !.content_width = flow.width - side_margin * 2,
                !.page_count = 0,
                !.current_node = Some(flow.node)]
    /\ UNCHANGED <<inner, writer, last, finished, added, given, lay, others>>

\* Faulty variant of CountNext: the first pass goes on with the head.
CountNextHead(node, content_width, body_available_height, font) ==
    LET r == split(node, content_width, body_available_height, font)
    IN IF r.action = "Split" THEN Some(r.head) ELSE None

\* The node the first pass goes on with after one split: the tail, or none
\* on Fit and Push.
CountNext(node, content_width, body_available_height, font) ==
    LET r == split(node, content_width, body_available_height, font)
    IN IF r.action = "Split" THEN Some(r.tail) ELSE None

\* A faulty variant of RenderStart: pass 2 goes on from the node pass 1 was
\* at when it ended, as if pass 1 had consumed the tree.
RenderStartWhereCountEnded(f) == f.current_node

\* let mut current_node = Some(node.inner.clone()) before pass 2: the root.
RenderStart(f) == Some(f.node)

\* One iteration of pass 1; when its loop ends, pass 2 starts from the root.
CountStep ==
    /\ flow.pc = "count"
    /\ flow.current_node.some
    /\ flow.page_count < MaxFlowPages
    /\ \E next \in {CountNext(flow.current_node.v, flow.content_width,
                               flow.body_available_height, MonoFont)} :
         flow' = [flow EXCEPT
             !.page_count = @ + 1,
             !.pc = IF next.some THEN "count" ELSE "render",
             !.current_page = 1,
             !.current_node = IF next.some THEN next ELSE RenderStart(flow)]
    /\ UNCHANGED <<inner, writer, last, finished, added, given, lay, others>>

\* Pass 2, step 1: the page after the header is rendered in header_area.
HeaderPage(f, page, context) ==
    IF f.header.some
    THEN render(f.header.v, page,
                Rect(side_margin, f.height - f.margin_top, f.content_width,
                     f.header_height),
                MonoFont, f.font_index, context)
    ELSE page

\* Pass 2, step 2: the page after the footer is rendered in footer_area.
FooterPage(f, page, context) ==
    IF f.footer.some
    THEN render(f.footer.v, page,
                Rect(side_margin, f.margin_bottom, f.content_width, f.footer_height),
                MonoFont, f.font_index, context)
    ELSE page

\* A faulty variant of BodyPiece: the node is rendered whole on every page.
BodyPieceWhole(node, r) == node

\* Pass 2, step 3: what is rendered as the body of this page, the whole node
\* on Fit and Push, the head on Split.
BodyPiece(node, r) == IF r.action = "Split" THEN r.head ELSE node

BodyPage(f, page, piece) ==
    render_layout(page, piece, side_margin, f.body_start_y, f.content_width,
                  MonoFont, f.font_index, Some(f.current_page), Some(f.page_count))

\* One iteration of pass 2: a new page, header, footer, body, add_page.
RenderStep ==
    /\ flow.pc = "render"
    /\ flow.current_node.some
    /\ inner.some
    /\ \E context \in {PageContext(flow.current_page, flow.page_count)} :
       \E p1 \in {HeaderPage(flow, Page_new(flow.width, flow.height), context)} :
       \E p2 \in {FooterPage(flow, p1, context)} :
       \E r \in {split(flow.current_node.v, flow.content_width,
                       flow.body_available_height, MonoFont)} :
       \E piece \in {BodyPiece(flow.current_node.v, r)} :
       \E p3 \in {BodyPage(flow, p2, piece)} :
       \E a \in {add_page(inner.v, writer, p3)} :
          /\ inner' = Some(a.doc)
          /\ writer' = a.w
          /\ last' = Result("add_page", TRUE, 0, Written(a.w) - Written(writer))
          /\ added' = Append(added, [page |-> p3, nfonts |-> Len(inner.v.fonts),
                                     nimages |-> Len(given)])
          /\ flow' = [flow EXCEPT
                 !.current_node = IF r.action = "Split" THEN Some(r.tail) ELSE None,
                 !.current_page = @ + 1,
                 !.pieces = Append(@, piece),
                 !.marks = Append(@, <<Len(p1.content), Len(p2.content)>>),
                 !.pc = IF r.action = "Split" THEN "render" ELSE "done"]
    /\ UNCHANGED <<finished, given, lay, others>>

InitFlow ==
    /\ inner = Some(add_font(Document_new, MonoFont).doc)
    /\ writer = NoWriter
    /\ last = [op |-> "add_font", ok |-> TRUE, ret |-> 0, wrote |-> 0,
               mode |-> "Buffered", after |-> FALSE]
    /\ finished = FALSE
    /\ added = <<>>
    /\ given = <<>>
    /\ lay = NoLay
    /\ OthersIdle
    /\ \E node \in FlowBodies, size \in FlowSizes, header \in FlowHeaders,
          footer \in FlowFooters, template \in FlowTemplates :
         flow = [pc |-> "start", node |-> node, width |-> size[1], height |-> size[2],
                 header |-> header, footer |-> footer, template |-> template,
                 font_index |-> 0,
                 margin_top |-> 0, margin_bottom |-> 0, header_height |-> 0,
                 footer_height |-> 0, body_available_height |-> 0,
                 body_start_y |-> 0, content_width |-> 0, page_count |-> 0,
                 current_node |-> None, current_page |-> 0,
                 pieces |-> <<>>, marks |-> <<>>]

NextFlow == FlowBegin \/ CountStep \/ RenderStep

SpecFlow == InitFlow /\ [][NextFlow]_vars

\* ---------------------------------------- the layout functions on their own
LeafNodes ==
    { PlainText(TxtA), PlainText(TxtB), PlainText(TxtLong), PlainText(TxtEmpty),
      ImageNode(0, 20, 20), TableNode(SmallTable),
      PageNumberNode(PageWordsTotal, 10, "left") }

RowNodes ==
    { Row(<<a, b>>, 2) : a \in {PlainText(TxtA), PlainText(TxtLong)},
                         b \in {PlainText(TxtB), ImageNode(0, 20, 20)} }

InnerNodes == LeafNodes \cup RowNodes \cup { Container(n, 2, 1) : n \in LeafNodes }

LayoutNodes ==
    InnerNodes
    \cup { Column(<<a, b>>, 2) : a \in InnerNodes, b \in LeafNodes }
    \cup { Column(<<PlainText(TxtA), PlainText(TxtA), n>>, 0) : n \in InnerNodes }

LayWidths == { 10 * i : i \in 2..MaxW }
LayHeights == { 10 * i : i \in 1..MaxH }

InitLayout ==
    /\ inner = Some(Document_new)
    /\ writer = NoWriter
    /\ last = [op |-> "new", ok |-> TRUE, ret |-> 0, wrote |-> 0,
               mode |-> "Buffered", after |-> FALSE]
    /\ finished = FALSE
    /\ added = <<>>
    /\ given = <<>>
    /\ flow = NoFlow
    /\ OthersIdle
    /\ \E node \in LayoutNodes, w \in LayWidths, h \in LayHeights :
         lay = [pc |-> "input", node |-> node, avail_w |-> w, avail_h |-> h,
                result |-> Fit, size |-> Size(0, 0), page |-> Page_new(0, 0)]

\* node.split(avail_w, avail_h)
SplitNode ==
    /\ lay.pc = "input"
    /\ LET r == split(lay.node, lay.avail_w, lay.avail_h, MonoFont)
       IN lay' = [lay EXCEPT !.pc = "split", !.result = r]
    /\ UNCHANGED <<inner, writer, last, finished, added, given, flow, others>>

\* head.measure(loose(avail_w, INFINITY)) on the head of a split
MeasureHead ==
    /\ lay.pc = "split"
    /\ lay.result.action = "Split"
    /\ LET sz == measure(lay.result.head, loose(lay.avail_w, INFINITY), MonoFont)
       IN lay' = [lay EXCEPT !.pc = "measured", !.size = sz]
    /\ UNCHANGED <<inner, writer, last, finished, added, given, flow, others>>

\* Page::render_layout of the node on a new page, from the top, width avail_w
RenderNode ==
    /\ lay.pc = "input"
    /\ LET sz == measure(lay.node, loose(lay.avail_w, INFINITY), MonoFont)
           p == render_layout(Page_new(lay.avail_w, lay.avail_h), lay.node,
                              0, lay.avail_h, lay.avail_w, MonoFont, 0, None, None)
       IN lay' = [lay EXCEPT !.pc = "rendered", !.size = sz, !.page = p]
    /\ UNCHANGED <<inner, writer, last, finished, added, given, flow, others>>

NextLayout == SplitNode \/ MeasureHead \/ RenderNode

SpecLayout == InitLayout /\ [][NextLayout]_vars

\* ------------------------------------------------------ reading the file
\* The entry of the file that holds object id.
EntryOf(f, id) == f[CHOOSE i \in DOMAIN f : f[i].id = id]

HasType(o, ty) ==
    o.t \in {"Dictionary", "Stream"} /\ DictGet(o.d, "Type") = Some(Name(ty))
HasSubtype(o, ty) ==
    o.t \in {"Dictionary", "Stream"} /\ DictGet(o.d, "Subtype") = Some(Name(ty))

\* The page objects and the CIDFont objects of the file, in file order.
PageEntries(f) == SelectSeq(f, LAMBDA e : HasType(e.obj, "Page"))
CidFontEntries(f) == SelectSeq(f, LAMBDA e : HasSubtype(e.obj, "CIDFontType2"))

\* The keys of a sub-dictionary of /Resources of a page object ({} if absent).
ResourceKeys(pageobj, kind) ==
    LET res == DictGet(pageobj.d, "Resources").v
        sub == DictGet(res.d, kind)
    IN IF sub.some THEN DictKeys(sub.v.d) ELSE {}

\* The content of the stream that /Contents of a page object references.
ContentsOf(f, pageobj) == EntryOf(f, DictGet(pageobj.d, "Contents").v.id).obj.c

\* The glyph ids a W array declares widths for, in array order:
\* c [w1 .. wn] declares c, c + 1, .., c + n - 1.
RECURSIVE DeclaredGids(_)
DeclaredGids(a) ==
    IF Len(a) < 2 THEN <<>>
    ELSE [j \in 1..Len(a[2].a) |-> a[1].i + j - 1]
         \o DeclaredGids(SubSeq(a, 3, Len(a)))

StrictlyAscending(q) == \A i \in 1..(Len(q) - 1) : q[i] < q[i + 1]

\* What an object is: its /Type and /Subtype, or the kind of its stream.
Role(o) ==
    IF o.t = "Dictionary"
    THEN <<"dict", DictGet(o.d, "Type"), DictGet(o.d, "Subtype")>>
    ELSE IF DictGet(o.d, "Length1").some THEN <<"stream", "FontFile2">>
    ELSE IF HasType(o, "XObject") THEN <<"stream", "Image">>
    ELSE <<"stream", "Contents", o.c>>

\* ------------------------------------------------------------------ claims

\* C1: after a terminal call has succeeded (write_to on a buffered document,
\* finalize on a streaming one), every later add_font, add_image, add_page,
\* write_to or finalize returns an error and writes nothing.
C1_NoCallAfterTerminal == last.after => (~last.ok /\ last.wrote = 0)

\* C2: finalize on a buffered document and write_to on a streaming document
\* return an error and write no object, xref or trailer.
C2_WrongModeFails ==
    /\ (last.op = "finalize" /\ last.mode = "Buffered")
          => (~last.ok /\ last.wrote = 0)
    /\ (last.op = "write_to" /\ last.mode = "Streaming")
          => (~last.ok /\ last.wrote = 0)

C2_Witness ==
    /\ last.op = "write_to" /\ last.mode = "Streaming" /\ ~last.ok
    /\ Len(added) >= 1
    /\ writer.tail = <<>>

\* C4: in both modes the page dictionary written for a page defines, in
\* /Resources /Font, every /F{n+2} its content references for a font index n
\* returned by an add_font call made before the page was added, and in
\* /Resources /XObject every /Im{k} it references for an image index k
\* returned by an earlier add_image call.
C4_ResourcesComplete ==
    LET ps == PageEntries(writer.file)
    IN \A i \in 1..Min(Len(ps), Len(added)) :
         LET content == ContentsOf(writer.file, ps[i].obj)
         IN /\ content = added[i].page.content
            /\ \A n \in 0..(added[i].nfonts - 1) :
                 ("F" \o ToString(n + 2)) \in FontRefs(content)
                    => ("F" \o ToString(n + 2)) \in ResourceKeys(ps[i].obj, "Font")
            /\ \A k \in 0..(added[i].nimages - 1) :
                 ("Im" \o ToString(k)) \in ImageRefs(content)
                    => ("Im" \o ToString(k)) \in ResourceKeys(ps[i].obj, "XObject")

\* C5: after the terminal call of either mode the object ids written are
\* exactly 1..N, each once; xref entry k holds the byte offset at which
\* object k begins; entry 0 is free with generation 65535; /Size is N + 1.
C5_XrefAccurate ==
    writer.tail # <<>> =>
        LET f == writer.file
            N == Len(f)
            t == writer.tail[1]
        IN /\ \A k \in 1..N : Cardinality({i \in 1..N : f[i].id = k}) = 1
           /\ Len(t.table) = N + 1
           /\ t.count = N + 1
           /\ t.table[1] = [offset |-> 0, gen |-> 65535, flag |-> "f"]
           /\ \A k \in 1..N :
                /\ t.table[k + 1].flag = "n"
                /\ t.table[k + 1].gen = 0
                /\ t.table[k + 1].offset = EntryOf(f, k).at
           /\ t.Size = N + 1

C5_Witness ==
    /\ writer.tail # <<>>
    /\ last.op = "finalize" /\ last.ok
    /\ Len(writer.file) >= 10
    /\ writer.file[Len(writer.file)].id = pages_id

\* C6: the Pages object written by the terminal call reflects the add_page
\* history: /Kids is the sequence of the page-object ids in add_page order,
\* the ids are strictly increasing, /Count is the number of add_page calls
\* and every page dictionary has /Parent referencing the Pages object.
C6_PagesTree ==
    (last.ok /\ last.op \in {"write_to", "finalize"}) =>
        LET f == writer.file
            pagesobj == EntryOf(f, pages_id).obj
            kids == DictGet(pagesobj.d, "Kids").v.a
            ps == PageEntries(f)
        IN /\ HasType(pagesobj, "Pages")
           /\ Len(kids) = Len(added)
           /\ Len(ps) = Len(added)
           /\ \A i \in 1..Len(added) :
                /\ kids[i] = Reference(ps[i].id)
                /\ ContentsOf(f, ps[i].obj) = added[i].page.content
                /\ DictGet(ps[i].obj.d, "Parent") = Some(Reference(pages_id))
           /\ StrictlyAscending([i \in 1..Len(kids) |-> kids[i].id])
           /\ DictGet(pagesobj.d, "Count") = Some(Integer(Len(added)))

C6_Witness ==
    /\ last.ok /\ last.op \in {"write_to", "finalize"}
    /\ Len(added) >= 2
    /\ added[1].page # added[2].page

\* C7: in buffered mode, for every registered font n (also one that no page
\* uses), the glyph ids the W array of font n's CIDFont declares widths for
\* are the union over all pages of used_glyphs[n], in ascending order.
C7_GlyphClosure ==
    (last.ok /\ last.op = "write_to") =>
        LET cids == CidFontEntries(writer.file)
        IN /\ Len(cids) = Len(inner.v.fonts)
           /\ \A n \in 0..(Len(inner.v.fonts) - 1) :
                LET declared == DeclaredGids(DictGet(cids[n + 1].obj.d, "W").v.a)
                IN /\ StrictlyAscending(declared)
                   /\ Range(declared) =
                        UNION {added[i].page.used_glyphs[n] :
                                 i \in {j \in DOMAIN added :
                                          n \in DOMAIN added[j].page.used_glyphs}}

\* C10: for the same sequence of add_font, add_image and add_page calls a
\* streaming and a buffered document give every object the same id.
BufferedTwin ==
    [Document_new EXCEPT !.fonts = inner.v.fonts,
                         !.images = given,
                         !.pages = [i \in 1..Len(added) |-> added[i].page]]

SameIdsAsBuffered ==
    LET b == write_to(BufferedTwin).w.file
    IN \A i \in DOMAIN writer.file :
         LET e == writer.file[i]
         IN /\ \E j \in DOMAIN b : b[j].id = e.id
            /\ Role(EntryOf(b, e.id).obj) = Role(e.obj)

RegisteredFirst ==
    /\ \A i \in DOMAIN added :
         added[i].nfonts = Len(inner.v.fonts) /\ added[i].nimages = Len(given)
    /\ (inner.v.fonts = <<>> \/ given = <<>>)

Resolved(format, k, total) ==
    replace(replace(format, PagePlaceholder, to_string(k)),
            TotalPlaceholder, to_string(total))

\* The text groups among content[from..to], and the words they show.
TextGroups(content, from, to) ==
    SelectSeq(SubSeq(content, from, to), LAMBDA o : o.op = "Tj")
ShownText(ops) == join([i \in 1..Len(ops) |-> ops[i].str])

IsPageNumber(opt) == opt.some /\ opt.v.k = "PageNumber"

\* Page k of the flow shows its header, footer and body page numbers for
\* (current = k, total = total).
PageShowsContext(k, total) ==
    LET content == inner.v.pages[k].content
        m == flow.marks[k]
        body == TextGroups(content, m[2] + 1, Len(content))
    IN /\ IsPageNumber(flow.header) =>
            ShownText(TextGroups(content, 1, m[1]))
               = join(split_whitespace(Resolved(flow.header.v.format, k, total)))
       /\ IsPageNumber(flow.footer) =>
            ShownText(TextGroups(content, m[1] + 1, m[2]))
               = join(split_whitespace(Resolved(flow.footer.v.format, k, total)))
       /\ \A i \in 1..Len(body) :
            (body[i].str # <<>> /\ Head(body[i].str) = "p")
               => body[i].str = Resolved(BodyPageOfTotal, k, total)

\* C3: when render_flow returns, the pages the render pass appended are as
\* many as the count pass counted, and the k-th of them shows its header,
\* footer and body with the page context (current = k, total = page_count).
C3_RenderMatchesCount ==
    /\ flow.pc = "render" =>
          /\ Len(inner.v.pages) < flow.page_count
          /\ flow.current_page = Len(inner.v.pages) + 1
    /\ flow.pc = "done" => Len(inner.v.pages) = flow.page_count
    /\ flow.pc \in {"render", "done"} =>
          \A k \in 1..Len(inner.v.pages) : PageShowsContext(k, flow.page_count)

C3_Witness ==
    /\ flow.pc = "done"
    /\ flow.page_count >= 3
    /\ Len(inner.v.pages) = flow.page_count
    /\ IsPageNumber(flow.header)
    /\ IsPageNumber(flow.footer)
    /\ \E k \in 2..Len(inner.v.pages) :
         \E i \in 1..Len(inner.v.pages[k].content) :
            /\ inner.v.pages[k].content[i].op = "Tj"
            /\ inner.v.pages[k].content[i].str
                  = Resolved(BodyPageOfTotal, k, flow.page_count)

\* The lowest point a group paints: a rectangle or an image reaches down to
\* its y, a line of text takes one leading below its y.
Bottom(o) == IF o.op = "Tj" THEN o.y - Leading(o.size) ELSE o.y

\* The vertical extent painted by content[from..to] below top.
RECURSIVE Lowest(_, _, _, _)
Lowest(content, from, to, top) ==
    IF from > to THEN top
    ELSE Min(Bottom(content[from]), Lowest(content, from + 1, to, top))
Extent(content, from, to, top) == top - Lowest(content, from, to, top)

\* C9: what render paints for a node is not taller than the rectangle
\* reserved for it from its measured height: on every page of render_flow the
\* header stays in header_height, the footer in footer_height, and the body
\* in the height measured for it under content_width.
C9_RenderWithinReserved ==
    \A k \in 1..Len(flow.marks) :
        LET content == inner.v.pages[k].content
            m == flow.marks[k]
        IN /\ Extent(content, 1, m[1], flow.height - flow.margin_top)
                 <= flow.header_height
           /\ Extent(content, m[1] + 1, m[2], flow.margin_bottom)
                 <= flow.footer_height
           /\ Extent(content, m[2] + 1, Len(content), flow.body_start_y)
                 <= measure(flow.pieces[k], loose(flow.content_width, INFINITY),
                            MonoFont).height

\* ------------------------------------------- claims on the layout functions
\* C8: if split(avail_w, avail_h) returns Split(head, tail), the height that
\* measure reports for head under max width avail_w is at most avail_h.
C8_SplitHeadFits == lay.pc = "measured" => lay.size.height <= lay.avail_h

\* ------------------------------------------------- claims on buffered ids
\* C11: write_to on a buffered document with F fonts, I images and P pages
\* writes Catalog as id 1, Pages as id 2, Helvetica as id 3, the bundle of
\* font n as ids 4+4n .. 7+4n with the Type0 object last, image k as id
\* 4+4F+k, the content stream of page p as id 4+4F+I+2p and its page object
\* as the next id: 3+4F+I+2P objects in all.
C11_BufferedIds ==
    (last.op = "write_to" /\ last.ok /\ inner.some) =>
        LET f == writer.file
            F == Len(inner.v.fonts)
            I == Len(given)
            P == Len(added)
            is(id, ty, sub) ==
                /\ \E j \in DOMAIN f : f[j].id = id
                /\ Role(EntryOf(f, id).obj) = <<"dict", ty, sub>>
            stream(id, kind) ==
                /\ \E j \in DOMAIN f : f[j].id = id
                /\ Role(EntryOf(f, id).obj)[2] = kind
        IN /\ Len(f) = 3 + 4 * F + I + 2 * P
           /\ is(1, Some(Name("Catalog")), None)
           /\ is(2, Some(Name("Pages")), None)
           /\ is(3, Some(Name("Font")), Some(Name("Type1")))
           /\ \A n \in 0..(F - 1) :
                /\ stream(4 + 4 * n, "FontFile2")
                /\ is(5 + 4 * n, Some(Name("FontDescriptor")), None)
                /\ is(6 + 4 * n, Some(Name("Font")), Some(Name("CIDFontType2")))
                /\ is(7 + 4 * n, Some(Name("Font")), Some(Name("Type0")))
                /\ DictGet(EntryOf(f, 5 + 4 * n).obj.d, "FontFile2")
                      = Some(Reference(4 + 4 * n))
                /\ DictGet(EntryOf(f, 7 + 4 * n).obj.d, "DescendantFonts")
                      = Some(Array(<<Reference(6 + 4 * n)>>))
           /\ \A k \in 0..(I - 1) : stream(4 + 4 * F + k, "Image")
           /\ \A p \in 0..(P - 1) :
                /\ stream(4 + 4 * F + I + 2 * p, "Contents")
                /\ EntryOf(f, 4 + 4 * F + I + 2 * p).obj.c = added[p + 1].page.content
                /\ is(5 + 4 * F + I + 2 * p, Some(Name("Page")), None)
                /\ DictGet(EntryOf(f, 5 + 4 * F + I + 2 * p).obj.d, "Contents")
                      = Some(Reference(4 + 4 * F + I + 2 * p))

C11_Witness ==
    /\ last.op = "write_to" /\ last.ok /\ inner.some
    /\ Len(inner.v.fonts) >= 1 /\ Len(given) >= 1 /\ Len(added) >= 2
    /\ Len(writer.file) = 12

\* ------------------------------------------------- Font and its shape cache
\* core/font.rs Font::shape_text with its cache.  A size is a number of
\* thousandths of a point, so that sizes closer than 0.01 can be told apart.
\* The key of the cache: (size * 100.0) as u32, a saturating cast.
size_key(size) == IF size < 0 THEN 0 ELSE size \div 10

\* The cache miss of shape_text: the shaping engine's glyphs, the raw
\* advances scaled by size / units_per_em (in thousandths of a point).
rustybuzz_shape(font, txt, size) ==
    [i \in 1..Len(txt) |->
       [glyph_id |-> GlyphOf(txt[i]),
        x_advance |-> (get_glyph_width(font, GlyphOf(txt[i])) * size)
                         \div font.units_per_em,
        y_advance |-> 0, x_offset |-> 0, y_offset |-> 0]]

\* cache.get(&cache_key)
cache_get(cache, cache_key) ==
    IF cache_key \in DOMAIN cache THEN Some(cache[cache_key]) ELSE None

\* self.shape_cache.borrow_mut().insert(cache_key, glyphs.clone())
cache_insert(cache, cache_key, glyphs) ==
    [k \in DOMAIN cache \cup {cache_key} |->
       IF k = cache_key THEN glyphs ELSE cache[k]]

\* Font::shape_text on a font whose cache is `cache`: the glyphs returned and
\* the cache afterwards.
shape_text_cached(cache, font, txt, size) ==
    LET cache_key == <<txt, size_key(size)>>
        hit == cache_get(cache, cache_key)
        glyphs == rustybuzz_shape(font, txt, size)
    IN IF hit.some THEN [glyphs |-> hit.v, cache |-> cache]
       ELSE [glyphs |-> glyphs, cache |-> cache_insert(cache, cache_key, glyphs)]

\* Font::measure_text on a font whose cache is `cache`: the glyph ids come
\* from shape_text, the widths from the font metrics.
measure_text_cached(cache, font, txt, size) ==
    LET r == shape_text_cached(cache, font, txt, size)
    IN [width |-> (SumSeq([i \in 1..Len(r.glyphs) |->
                             get_glyph_width(font, r.glyphs[i].glyph_id)]) * size)
                     \div font.units_per_em,
        cache |-> r.cache]

\* #[derive(Clone)] on Font: shape_cache is an Arc, the clone shares it.
Font_clone(handle) == handle

\* The Font handles a program may hold.
MaxHandles == 2
ShapeTexts == {<<"a">>, <<"a", "b">>, <<>>}
ShapeSizes == {10000, 10004, 12000}
EmptyCache == [k \in {} |-> <<>>]

\* shape.handles[h] is the cache the h-th handle points to, shape.caches the
\* caches; shape.txt, shape.size, shape.result describe the last call.
InitShape ==
    /\ inner = Some(Document_new) /\ writer = NoWriter
    /\ last = [op |-> "new", ok |-> TRUE, ret |-> 0, wrote |-> 0,
               mode |-> "Buffered", after |-> FALSE]
    /\ finished = FALSE /\ added = <<>> /\ given = <<>>
    /\ flow = NoFlow /\ lay = NoLay
    /\ wrap = Idle /\ esc = Idle /\ tbl = Idle /\ caller = Idle
    /\ shape = [pc |-> "loaded", handles |-> <<1>>, caches |-> <<EmptyCache>>,
                txt |-> <<>>, size |-> 0, result |-> <<>>, width |-> 0]

CloneFont ==
    /\ shape.pc # "idle"
    /\ Len(shape.handles) < MaxHandles
    /\ \E h \in DOMAIN shape.handles :
         shape' = [shape EXCEPT !.pc = "cloned",
                                !.handles = Append(@, Font_clone(shape.handles[h]))]
    /\ UNCHANGED <<docVars, flow, lay, wrap, esc, tbl, caller>>

ShapeText ==
    /\ shape.pc # "idle"
    /\ \E h \in DOMAIN shape.handles, txt \in ShapeTexts, size \in ShapeSizes :
         \E r \in {shape_text_cached(shape.caches[shape.handles[h]], TheFont, txt, size)} :
            shape' = [shape EXCEPT !.pc = "shaped", !.txt = txt, !.size = size,
                                   !.result = r.glyphs,
                                   !.caches[shape.handles[h]] = r.cache]
    /\ UNCHANGED <<docVars, flow, lay, wrap, esc, tbl, caller>>

MeasureText ==
    /\ shape.pc # "idle"
    /\ \E h \in DOMAIN shape.handles, txt \in ShapeTexts, size \in ShapeSizes :
         \E r \in {measure_text_cached(shape.caches[shape.handles[h]], TheFont, txt, size)} :
            shape' = [shape EXCEPT !.pc = "measured", !.txt = txt, !.size = size,
                                   !.width = r.width,
                                   !.caches[shape.handles[h]] = r.cache]
    /\ UNCHANGED <<docVars, flow, lay, wrap, esc, tbl, caller>>

NextShape == CloneFont \/ ShapeText \/ MeasureText

SpecShape == InitShape /\ [][NextShape]_vars

\* C12: shape_text(x, s) returns the same glyph ids, advances and offsets
\* whatever shape_text or measure_text calls were made earlier on the font or
\* on a clone of it: the result with a warm cache is the result with a cold one.
C12_ShapeIgnoresHistory ==
    shape.pc = "shaped" =>
        shape.result = shape_text_cached(EmptyCache, TheFont, shape.txt, shape.size).glyphs

\* --------------------------------------- render_flow on tables and columns
\* The rows lo..hi (1-based) of a table.
RowsOf(table, lo, hi) == [table EXCEPT !.rows = SubSeq(@, lo, hi)]

\* A table of two columns with n rows of one line each, row i showing i.
RECURSIVE EqualTable(_)
EqualTable(n) ==
    IF n = 0 THEN Table_new(<<TableColumn(<<"a">>, 30), TableColumn(<<"b">>, 30)>>)
    ELSE add_row(EqualTable(n - 1), <<<<"r">>, <<ToString(n)>>>>)

MaxRows == 5
TableFlowHeights == {50, 60, 75, 90, 100, 120}
TableFlowFooters == {None, Some(PageNumberNode(PageOfTotal, 10, "center"))}

\* render_flow called with a table as the root node.
InitFlowTable ==
    /\ inner = Some(add_font(Document_new, MonoFont).doc)
    /\ writer = NoWriter
    /\ last = [op |-> "add_font", ok |-> TRUE, ret |-> 0, wrote |-> 0,
               mode |-> "Buffered", after |-> FALSE]
    /\ finished = FALSE /\ added = <<>> /\ given = <<>>
    /\ lay = NoLay
    /\ OthersIdle
    /\ \E n \in 1..MaxRows, h \in TableFlowHeights, footer \in TableFlowFooters :
         flow = [pc |-> "start", node |-> TableNode(EqualTable(n)),
                 width |-> 160, height |-> h,
                 header |-> None, footer |-> footer, template |-> None,
                 font_index |-> 0,
                 margin_top |-> 0, margin_bottom |-> 0, header_height |-> 0,
                 footer_height |-> 0, body_available_height |-> 0,
                 body_start_y |-> 0, content_width |-> 0, page_count |-> 0,
                 current_node |-> None, current_page |-> 0,
                 pieces |-> <<>>, marks |-> <<>>]

SpecFlowTable == InitFlowTable /\ [][NextFlow]_vars

\* The operators of page k that its body painted (after header and footer).
BodyOps(k) ==
    SubSeq(inner.v.pages[k].content, flow.marks[k][2] + 1,
           Len(inner.v.pages[k].content))

\* C13: a root table with n >= 1 rows of equal height r, header height H and
\* body area B with c = floor((B - H) / r) >= 1 gives ceil(n / c) pages, and
\* page k renders the header and rows (k-1)*c .. min(k*c, n) - 1 in order.
C13_TableRowsPerPage ==
    (flow.pc = "done" /\ flow.node.k = "Table") =>
        LET table == flow.node.table
            n == Len(table.rows)
            r == RowHeight(table, table.rows[1], MonoFont)
            c == (flow.body_available_height - table.settings.header_height) \div r
            pages == (n + c - 1) \div c
        IN (flow.body_available_height >= table.settings.header_height /\ c >= 1) =>
              /\ flow.page_count = pages
              /\ Len(inner.v.pages) = pages
              /\ \A k \in 1..pages :
                   BodyOps(k) =
                     draw_table(Page_new(flow.width, flow.height),
                                RowsOf(table, (k - 1) * c + 1, Min(k * c, n)),
                                side_margin, flow.body_start_y, MonoFont,
                                flow.font_index).page.content

C13_Witness ==
    /\ flow.pc = "done" /\ flow.node.k = "Table"
    /\ Len(flow.node.table.rows) = 5
    /\ flow.body_available_height = 90
    /\ Len(inner.v.pages) = 3
    /\ Len(flow.pieces[3].table.rows) = 1

\* A column with spacing 0 of n copies of one child.
EqualColumn(child, n) == Column([i \in 1..n |-> child], 0)

MaxChildren == 4
MaxPerPage == 3
ColumnChildren ==
    { ImageNode(0, 20, 24), PlainText(<<"a", "a">>),
      PlainText(<<"a", "a", "a", "a", "a", "a">>),
      PageNumberNode(BodyPageOfTotal, 10, "left") }
ColumnFlowWidths == {120, 160}
SlashFooter == PageNumberNode(PageOfTotal, 10, "center")

\* render_flow called with a column of equal children as the root node, a
\* "{page}/{total}" footer and a body area of c times the child's height.
InitFlowColumn ==
    /\ inner = Some(add_font(Document_new, MonoFont).doc)
    /\ writer = NoWriter
    /\ last = [op |-> "add_font", ok |-> TRUE, ret |-> 0, wrote |-> 0,
               mode |-> "Buffered", after |-> FALSE]
    /\ finished = FALSE /\ added = <<>> /\ given = <<>>
    /\ lay = NoLay
    /\ OthersIdle
    /\ \E child \in ColumnChildren, n \in 1..MaxChildren, c \in 1..MaxPerPage,
          w \in ColumnFlowWidths :
         LET h == measure(child, loose(w - side_margin * 2, INFINITY), MonoFont).height
         IN flow = [pc |-> "start", node |-> EqualColumn(child, n),
                 width |-> w, height |-> c * h + ReservedHeight(Some(SlashFooter), w),
                 header |-> None, footer |-> Some(SlashFooter), template |-> None,
                 font_index |-> 0,
                 margin_top |-> 0, margin_bottom |-> 0, header_height |-> 0,
                 footer_height |-> 0, body_available_height |-> 0,
                 body_start_y |-> 0, content_width |-> 0, page_count |-> 0,
                 current_node |-> None, current_page |-> 0,
                 pieces |-> <<>>, marks |-> <<>>]

SpecFlowColumn == InitFlowColumn /\ [][NextFlow]_vars

\* The operators of page k that its footer painted.
FooterOps(k) ==
    SubSeq(inner.v.pages[k].content, flow.marks[k][1] + 1, flow.marks[k][2])

\* C14: a root column with spacing 0 and n >= 1 children of equal measured
\* height h on a body area B = c*h gives ceil(n / c) pages, page k renders
\* exactly children (k-1)*c .. min(k*c, n) - 1, whole and in order, and the
\* "{page}/{total}" footer shows "k/ceil(n/c)" on page k.
C14_ColumnChildrenPerPage ==
    (flow.pc \in {"render", "done"} /\ flow.node.k = "Column") =>
        LET children == flow.node.children
            n == Len(children)
            h == measure(children[1], loose(flow.content_width, INFINITY), MonoFont).height
            c == flow.body_available_height \div h
            pages == (n + c - 1) \div c
        IN /\ flow.page_count = pages
           /\ flow.pc = "done" => Len(inner.v.pages) = pages
           /\ \A k \in 1..Len(inner.v.pages) :
                /\ k <= pages
                /\ flow.pieces[k] = Column(SubSeq(children, (k - 1) * c + 1, Min(k * c, n)), 0)
                /\ ShownText(TextGroups(FooterOps(k), 1, Len(FooterOps(k))))
                      = Resolved(PageOfTotal, k, pages)

\* ------------------------------------------- the caller's pages and add_page
\* The Pages the caller holds are caller.heap; a page held by the document is
\* either a copy of its own or a reference to one of the caller's.
\* Faulty variant of Page_clone: the document keeps the caller's page.
Page_borrow(heap, h) == [own |-> FALSE, ref |-> h]

\* document.rs add_page: let page = page.clone(); every field of Page is an
\* owned collection, so the clone shares nothing with the original.
Page_clone(heap, h) == [own |-> TRUE, page |-> heap[h]]

\* The page a document entry stands for.
Held(heap, entry) == IF entry.own THEN entry.page ELSE heap[entry.ref]
HeldPages(heap, d) == [d EXCEPT !.pages = [i \in DOMAIN @ |-> Held(heap, @[i])]]

\* The pages the caller creates, the drawing calls and the add_page calls.
MaxCallerSteps == 4

\* A drawing operation the caller applies to one of its pages.
DrawOps == {"text", "text_with_font", "draw_image"}
Draw(p, kind) ==
    CASE kind = "text" -> text(p, <<"(", "a">>, 50, 700 - Len(p.content), 10)
      [] kind = "text_with_font" ->
             text_with_font(p, <<"a", "b">>, 50, 700 - Len(p.content), 10, 0, TheFont)
      [] kind = "draw_image" -> draw_image(p, 0, 50, 700 - Len(p.content), 2, 2)

\* caller.doc is a buffered document with one font and one image; from[i]
\* and snaps[i] record which page the i-th add_page was given and its value
\* at that call; out is the file of the last write_to.
InitCaller ==
    /\ inner = Some(Document_new) /\ writer = NoWriter
    /\ last = [op |-> "new", ok |-> TRUE, ret |-> 0, wrote |-> 0,
               mode |-> "Buffered", after |-> FALSE]
    /\ finished = FALSE /\ added = <<>> /\ given = <<>>
    /\ flow = NoFlow /\ lay = NoLay
    /\ shape = Idle /\ wrap = Idle /\ esc = Idle /\ tbl = Idle
    /\ caller = [pc |-> "new",
                 heap |-> <<Page_new(595, 842)>>,
                 doc |-> add_image(add_font(Document_new, TheFont).doc,
                                   NoWriter, Jpeg).doc,
                 from |-> <<>>, snaps |-> <<>>, draws |-> 0, out |-> NoWriter]

CallerSteps == Len(caller.heap) - 1 + caller.draws + Len(caller.from)

CallerNewPage ==
    /\ caller.pc # "idle"
    /\ CallerSteps < MaxCallerSteps
    /\ caller' = [caller EXCEPT !.pc = "page", !.heap = Append(@, Page_new(595, 842))]
    /\ UNCHANGED <<docVars, flow, lay, shape, wrap, esc, tbl>>

CallerDraw ==
    /\ caller.pc # "idle"
    /\ CallerSteps < MaxCallerSteps
    /\ \E h \in DOMAIN caller.heap, kind \in DrawOps :
         caller' = [caller EXCEPT !.pc = "drawn", !.draws = @ + 1,
                                  !.heap[h] = Draw(@, kind)]
    /\ UNCHANGED <<docVars, flow, lay, shape, wrap, esc, tbl>>

CallerAddPage ==
    /\ caller.pc # "idle"
    /\ CallerSteps < MaxCallerSteps
    /\ \E h \in DOMAIN caller.heap :
       \E r \in {add_page(caller.doc, NoWriter, Page_clone(caller.heap, h))} :
         caller' = [caller EXCEPT !.pc = "added", !.doc = r.doc,
                                  !.from = Append(@, h),
                                  !.snaps = Append(@, caller.heap[h])]
    /\ UNCHANGED <<docVars, flow, lay, shape, wrap, esc, tbl>>

CallerWriteTo ==
    /\ caller.pc # "idle"
    /\ \E r \in {write_to(HeldPages(caller.heap, caller.doc))} :
         caller' = [caller EXCEPT !.pc = "written", !.out = r.w]
    /\ UNCHANGED <<docVars, flow, lay, shape, wrap, esc, tbl>>

NextCaller == CallerNewPage \/ CallerDraw \/ CallerAddPage \/ CallerWriteTo

SpecCaller == InitCaller /\ [][NextCaller]_vars

\* C15: add_page stores a copy: whatever the caller draws on its Page after
\* add_page(page), the page the document holds keeps the content, used_glyphs
\* and used_images it had at the call, and a Page added twice gives two
\* independent pages in the output.
C15_AddPageCopies ==
    /\ caller.pc # "idle" =>
          \A i \in DOMAIN caller.snaps :
             Held(caller.heap, caller.doc.pages[i]) = caller.snaps[i]
    /\ caller.pc = "written" =>
          LET ps == PageEntries(caller.out.file)
          IN /\ Len(ps) = Len(caller.snaps)
             /\ \A i \in DOMAIN ps :
                  /\ ContentsOf(caller.out.file, ps[i].obj) = caller.snaps[i].content
                  /\ ResourceKeys(ps[i].obj, "XObject")
                        = {"Im" \o ToString(k) : k \in caller.snaps[i].used_images}
             /\ \A i, j \in DOMAIN ps :
                  i # j => /\ ps[i].id # ps[j].id
                           /\ DictGet(ps[i].obj.d, "Contents")
                                 # DictGet(ps[j].obj.d, "Contents")

C15_Witness ==
    /\ caller.pc = "written"
    /\ Len(caller.from) >= 2
    /\ caller.from[1] = caller.from[2]
    /\ caller.snaps[1] # caller.snaps[2]
    /\ caller.heap[caller.from[1]] # caller.snaps[1]

\* -------------------------------------------- tables (table.rs, template.rs)
\* template.rs resolve_template_string on a cell without "{{": the cell.
resolve_template_string(cell, data) == cell

\* template.rs resolve_json_path(field, item).unwrap_or_default()
resolve_json_path(field, item) ==
    IF field \in DOMAIN item THEN item[field] ELSE <<>>

\* template.rs TemplateNode::to_layout_node for a Table: the static rows as
\* they are written in the template, then one row per item of the bound
\* array with one cell per column.
to_layout_node_table(columns, fields, rows, items) ==
    LET static_rows == [i \in DOMAIN rows |->
                          [j \in DOMAIN rows[i] |->
                             resolve_template_string(rows[i][j], items)]]
        bound_rows == [i \in DOMAIN items |->
                          [j \in DOMAIN columns |->
                             IF fields[j].some
                             THEN resolve_json_path(fields[j].v, items[i])
                             ELSE <<>>]]
    IN TableNode([columns |-> columns, rows |-> static_rows \o bound_rows,
                  settings |-> TableSettings_default])

MaxTableRows == 2
TwoColumns == <<TableColumn(<<"a">>, 30), TableColumn(<<"b">>, 30)>>
TwoFields == <<Some("x"), None>>
RowInputs == { <<>>, <<<<"a">>>>, <<<<"a">>, <<"b", "b">>>>,
               <<<<"a">>, <<"b">>, <<"c">>>> }
RowLists == {<<>>} \cup {<<r>> : r \in RowInputs}
               \cup {<<r, q>> : r \in RowInputs, q \in RowInputs}
ItemInputs == { [x |-> <<"c">>], [y |-> <<"b">>] }
ItemLists == {<<>>} \cup {<<i>> : i \in ItemInputs}

\* tbl.table is the Table being built, tbl.via how its rows came.
InitTable ==
    /\ inner = Some(Document_new) /\ writer = NoWriter
    /\ last = [op |-> "new", ok |-> TRUE, ret |-> 0, wrote |-> 0,
               mode |-> "Buffered", after |-> FALSE]
    /\ finished = FALSE /\ added = <<>> /\ given = <<>>
    /\ flow = NoFlow /\ lay = NoLay
    /\ shape = Idle /\ wrap = Idle /\ esc = Idle /\ caller = Idle
    /\ tbl = [pc |-> "new", via |-> "add_row", table |-> Table_new(TwoColumns),
              size |-> Size(0, 0), result |-> Fit, page |-> Page_new(0, 0)]

TableAddRow ==
    /\ tbl.pc \in {"new", "built"} /\ tbl.via = "add_row"
    /\ Len(tbl.table.rows) < MaxTableRows
    /\ \E row \in RowInputs :
         tbl' = [tbl EXCEPT !.pc = "built", !.table = add_row(@, row)]
    /\ UNCHANGED <<docVars, flow, lay, shape, wrap, esc, caller>>

TableFromTemplate ==
    /\ tbl.pc = "new"
    /\ \E rows \in RowLists, items \in ItemLists :
         tbl' = [tbl EXCEPT !.pc = "built", !.via = "template",
                    !.table = to_layout_node_table(TwoColumns, TwoFields,
                                                   rows, items).table]
    /\ UNCHANGED <<docVars, flow, lay, shape, wrap, esc, caller>>

TableMeasure ==
    /\ tbl.pc = "built"
    /\ \E sz \in {measure(TableNode(tbl.table), loose(100, INFINITY), MonoFont)} :
         tbl' = [tbl EXCEPT !.pc = "measured", !.size = sz]
    /\ UNCHANGED <<docVars, flow, lay, shape, wrap, esc, caller>>

TableSplit ==
    /\ tbl.pc = "built"
    /\ \E h \in {40, 70, 100} :
       \E r \in {split(TableNode(tbl.table), 100, h, MonoFont)} :
         tbl' = [tbl EXCEPT !.pc = "split", !.result = r]
    /\ UNCHANGED <<docVars, flow, lay, shape, wrap, esc, caller>>

TableDraw ==
    /\ tbl.pc = "built"
    /\ \E p \in {draw_table(Page_new(200, 200), tbl.table, 50, 150, MonoFont, 0).page} :
         tbl' = [tbl EXCEPT !.pc = "drawn", !.page = p]
    /\ UNCHANGED <<docVars, flow, lay, shape, wrap, esc, caller>>

NextTable == TableAddRow \/ TableFromTemplate \/ TableMeasure \/ TableSplit \/ TableDraw

SpecTable == InitTable /\ [][NextTable]_vars

\* C16: every Table that reaches measure, split or draw_table has
\* rows[i].length = columns.length for every row, whether the rows came
\* through add_row or from a template's static rows or data binding.
C16_RowsMatchColumns ==
    tbl.pc \in {"measured", "split", "drawn"} =>
        \A i \in DOMAIN tbl.table.rows :
           Len(tbl.table.rows[i]) = Len(tbl.table.columns)

\* ------------------------------------------ claims on streaming font bundles
\* Whether an object belongs to the bundle of a custom font.
IsBundleObject(o) ==
    \/ Role(o) = <<"stream", "FontFile2">>
    \/ HasType(o, "FontDescriptor")
    \/ HasSubtype(o, "CIDFontType2")
    \/ HasSubtype(o, "Type0")

\* The position in the file of the content stream of the i-th added page.
ContentPosition(f, i) ==
    CHOOSE j \in DOMAIN f :
       f[j].id = DictGet(PageEntries(f)[i].obj.d, "Contents").v.id

\* C17: in streaming mode the first add_page call made while a font is
\* registered writes the four-object bundle of every font registered so far
\* (full font, W array over all glyphs) before that page's content stream and
\* sets fonts_embedded; no other call writes a font bundle.
C17_BundlesOnceAtFirstPage ==
    (inner.some /\ inner.v.mode = "Streaming") =>
        LET f == writer.file
            bundle == {j \in DOMAIN f : IsBundleObject(f[j].obj)}
            withFont == {i \in DOMAIN added : added[i].nfonts >= 1}
        IN IF withFont = {}
           THEN bundle = {} /\ ~inner.v.fonts_embedded
           ELSE LET first == CHOOSE i \in withFont : \A k \in withFont : i <= k
                    F == added[first].nfonts
                    at == ContentPosition(f, first)
                IN /\ inner.v.fonts_embedded
                   /\ bundle = (at - 4 * F)..(at - 1)
                   /\ \A n \in 0..(F - 1) :
                        LET b == at - 4 * F + 4 * n
                        IN /\ Role(f[b].obj) = <<"stream", "FontFile2">>
                           /\ DictGet(f[b].obj.d, "Length1")
                                 = Some(Integer(inner.v.fonts[n + 1].data_len))
                           /\ HasType(f[b + 1].obj, "FontDescriptor")
                           /\ HasSubtype(f[b + 2].obj, "CIDFontType2")
                           /\ HasSubtype(f[b + 3].obj, "Type0")
                           /\ LET W == DictGet(f[b + 2].obj.d, "W").v.a
                              IN /\ Len(W) = 2
                                 /\ W[1] = Integer(0)
                                 /\ Len(W[2].a) = inner.v.fonts[n + 1].num_glyphs

C17_Witness ==
    /\ inner.some /\ inner.v.mode = "Streaming" /\ inner.v.fonts_embedded
    /\ Len(added) >= 3
    /\ added[1].nfonts = 0 /\ added[2].nfonts >= 1

\* --------------------------------------------- claims on the text wrapper
\* The texts of at most n characters over an alphabet.
RECURSIVE StringsUpTo(_, _)
StringsUpTo(alphabet, n) ==
    IF n = 0 THEN {<<>>}
    ELSE LET shorter == StringsUpTo(alphabet, n - 1)
         IN shorter \cup {Append(s, ch) : s \in shorter, ch \in alphabet}

MaxWrapLen == 4
WrapTexts == StringsUpTo({"a", "c", " "}, MaxWrapLen)
\* Line widths in points: a negative one, zero, one that holds "a" but not
\* "c" in TheFont, and wider ones.
WrapWidths == {0 - 5, 0, 5, 11, 16, 30}
WrapFonts == {TheFont, MonoFont}

InitWrap ==
    /\ inner = Some(Document_new) /\ writer = NoWriter
    /\ last = [op |-> "new", ok |-> TRUE, ret |-> 0, wrote |-> 0,
               mode |-> "Buffered", after |-> FALSE]
    /\ finished = FALSE /\ added = <<>> /\ given = <<>>
    /\ flow = NoFlow /\ lay = NoLay
    /\ shape = Idle /\ esc = Idle /\ tbl = Idle /\ caller = Idle
    /\ \E txt \in WrapTexts, width \in WrapWidths, font \in WrapFonts :
          wrap = [pc |-> "ready", txt |-> txt, width |-> width, font |-> font,
                  size |-> 10, page |-> Page_new(595, 842)]

\* page.text_multiline(text, 50, 700, width, size, 0, font)
TextMultiline ==
    /\ wrap.pc = "ready"
    /\ wrap' = [wrap EXCEPT
                  !.pc = "wrapped",
                  !.page = text_multiline(@, wrap.txt, 50, 700, wrap.width,
                                          wrap.size, 0, wrap.font)]
    /\ UNCHANGED <<docVars, flow, lay, shape, esc, tbl, caller>>

NextWrap == TextMultiline
SpecWrap == InitWrap /\ [][NextWrap]_vars

\* The lines the wrapper emitted, top to bottom.
EmittedLines == [i \in DOMAIN wrap.page.content |-> wrap.page.content[i].str]

\* C18: every line text_multiline emits measures at most max_width, except a
\* line of one character that is by itself wider than max_width; an empty or
\* whitespace-only text emits no line.
C18_LinesFit ==
    wrap.pc = "wrapped" =>
        /\ \A i \in DOMAIN EmittedLines :
              LET line == EmittedLines[i]
                  w == measure_text(wrap.font, line, wrap.size)
              IN w <= wrap.width \/ (Len(line) = 1 /\ w > wrap.width)
        /\ (\A i \in DOMAIN wrap.txt : wrap.txt[i] = " ") => EmittedLines = <<>>

C18_Witness ==
    /\ wrap.pc = "wrapped"
    /\ Len(EmittedLines) >= 3
    /\ \E i \in DOMAIN EmittedLines :
          /\ Len(EmittedLines[i]) = 1
          /\ measure_text(wrap.font, EmittedLines[i], wrap.size) > wrap.width
    /\ \E i \in DOMAIN EmittedLines :
          measure_text(wrap.font, EmittedLines[i], wrap.size) <= wrap.width

\* ------------------------------------------------- claims on escape_string
MaxEscLen == 4
EscapeInputs == StringsUpTo({"(", ")", "\\", "a"}, MaxEscLen)

\* The reading of an escaped string: a backslash escapes the character after
\* it; each character read is paired with whether a backslash escaped it.  A
\* backslash at the very end escapes nothing and is read as itself.
RECURSIVE ReadEscaped(_)
ReadEscaped(e) ==
    IF e = <<>> THEN <<>>
    ELSE IF Head(e) = "\\" /\ Len(e) >= 2
         THEN <<[ch |-> e[2], escaped |-> TRUE]>> \o ReadEscaped(SubSeq(e, 3, Len(e)))
         ELSE <<[ch |-> Head(e), escaped |-> FALSE]>> \o ReadEscaped(Tail(e))

\* Un-escaping: the escaping backslashes dropped, the characters kept.
unescape(e) == [i \in DOMAIN ReadEscaped(e) |-> ReadEscaped(e)[i].ch]

InitEscape ==
    /\ inner = Some(Document_new) /\ writer = NoWriter
    /\ last = [op |-> "new", ok |-> TRUE, ret |-> 0, wrote |-> 0,
               mode |-> "Buffered", after |-> FALSE]
    /\ finished = FALSE /\ added = <<>> /\ given = <<>>
    /\ flow = NoFlow /\ lay = NoLay
    /\ shape = Idle /\ wrap = Idle /\ tbl = Idle /\ caller = Idle
    /\ \E s \in EscapeInputs : esc = [pc |-> "ready", s |-> s, out |-> <<>>]

\* escape_string(s), as Page::text calls it on the text it shows.
EscapeString ==
    /\ esc.pc = "ready"
    /\ esc' = [esc EXCEPT !.pc = "escaped", !.out = escape_string(esc.s)]
    /\ UNCHANGED <<docVars, flow, lay, shape, wrap, tbl, caller>>

NextEscape == EscapeString
SpecEscape == InitEscape /\ [][NextEscape]_vars

\* C19: un-escaping escape_string(s) gives back s, and in escape_string(s)
\* every "(", ")" and "\" of s is preceded by exactly one escaping backslash
\* (and no other character by any).
C19_EscapeReversible ==
    esc.pc = "escaped" =>
        LET read == ReadEscaped(esc.out)
            special == {i \in DOMAIN esc.s : esc.s[i] \in {"(", ")", "\\"}}
        IN /\ unescape(esc.out) = esc.s
           /\ \A i \in DOMAIN read : read[i].escaped <=> i \in special
           /\ Len(esc.out) = Len(esc.s) + Cardinality(special)

C19_Witness ==
    /\ esc.pc = "escaped"
    /\ \E i, j, k \in DOMAIN esc.s :
          /\ i < j /\ j < k
          /\ esc.s[i] = "\\" /\ esc.s[j] = "(" /\ esc.s[k] = ")"
    /\ Len(esc.out) >= 7

\* ------------------------------------------- claims on render_flow's loops
\* Whether the loop `while current_node.is_some()` started at node ends: the
\* chain of tails reaches a Fit or a Push.  split is a function of the node
\* and of the fixed body box, so a chain that comes back to a node it has
\* already split repeats from there for ever.
RECURSIVE ReachesFitOrPush(_, _, _, _)
ReachesFitOrPush(node, seen, content_width, body_available_height) ==
    LET r == split(node, content_width, body_available_height, MonoFont)
    IN IF r.action # "Split" THEN TRUE
       ELSE IF r.tail \in seen \cup {node} THEN FALSE
       ELSE ReachesFitOrPush(r.tail, seen \cup {node}, content_width,
                             body_available_height)

\* C20: render_flow terminates for every layout tree, page size and margins:
\* from the node either pass is at, the chain of Split steps reaches a Fit or
\* a Push after finitely many steps.
C20_PassesTerminate ==
    (flow.pc \in {"count", "render"} /\ flow.current_node.some) =>
        ReachesFitOrPush(flow.current_node.v, {}, flow.content_width,
                         flow.body_available_height)

\* ----------------------------------------------- claims on the split rules
\* The height Column::split has left for child i when it reaches it: the
\* available height less the measured heights of the children before it and
\* the spacing before each child but the first.
RemainingAt(n, i, available_width, available_height) ==
    available_height
    - SumSeq([j \in 1..(i - 1) |->
                 measure(n.children[j], loose(available_width, INFINITY), MonoFont).height])
    - n.spacing * (i - 1)

\* C21: when Column.split returns Split(head, tail) with the break at child
\* i, head holds the children before i plus the head part of child i if that
\* child split, tail holds the tail part plus the children after i, or the
\* children from i on if child i was pushed whole; both keep the spacing; and
\* the answer is Push exactly when head would have no children.
C21_ColumnSplitParts ==
    (lay.pc = "split" /\ lay.node.k = "Column") =>
        LET n == lay.node
            r == lay.result
            len == Len(n.children)
            rem(i) == RemainingAt(n, i, lay.avail_w, lay.avail_h)
            part(i) == split(n.children[i], lay.avail_w, rem(i), MonoFont)
            splitAt(i) == rem(i) > 0 /\ part(i).action = "Split"
            pushedAt(i) == rem(i) <= 0 \/ part(i).action = "Push"
            first_height ==
                measure(n.children[1], loose(lay.avail_w, INFINITY), MonoFont).height
        IN /\ r.action = "Split" =>
                /\ r.head.k = "Column" /\ r.tail.k = "Column"
                /\ r.head.spacing = n.spacing /\ r.tail.spacing = n.spacing
                /\ \E i \in 1..len :
                      \/ /\ splitAt(i)
                         /\ r.head.children
                               = Append(SubSeq(n.children, 1, i - 1), part(i).head)
                         /\ r.tail.children
                               = <<part(i).tail>> \o SubSeq(n.children, i + 1, len)
                      \/ /\ pushedAt(i)
                         /\ i > 1
                         /\ r.head.children = SubSeq(n.children, 1, i - 1)
                         /\ r.tail.children = SubSeq(n.children, i, len)
           /\ r.action = "Push" <=>
                /\ len >= 1
                /\ first_height > lay.avail_h - safety_margin
                /\ pushedAt(1)

C21_Witness ==
    /\ lay.pc = "split" /\ lay.node.k = "Column"
    /\ lay.result.action = "Split"
    /\ Len(lay.result.head.children) >= 2
    /\ Len(lay.result.tail.children) >= 2
    /\ lay.result.tail.children[1] \notin Range(lay.node.children)

\* The total height of the first i rows of a table.
RECURSIVE PrefixHeight(_, _)
PrefixHeight(table, i) ==
    IF i = 0 THEN 0
    ELSE PrefixHeight(table, i - 1) + RowHeight(table, table.rows[i], MonoFont)

C23_TextSplitHead ==
    (lay.pc = "split" /\ lay.node.k = "Text") =>
        LET n == lay.node
            r == lay.result
            max_lines == MaxLinesIn(lay.avail_h, Leading(n.size))
        IN /\ max_lines = 0 => r.action = "Push"
           /\ r.action = "Split" =>
                /\ calculate_text_lines(r.head.text, lay.avail_w, n.size, MonoFont)
                      <= max_lines
                /\ split_whitespace(r.head.text) \o split_whitespace(r.tail.text)
                      = split_whitespace(n.text)
                /\ r.head.size = n.size /\ r.tail.size = n.size
                /\ r.head.color = n.color /\ r.tail.color = n.color
                /\ r.head.background_color = n.background_color
                /\ r.tail.background_color = n.background_color

\* C24: Row.split never answers Split; it answers Fit exactly when the height
\* Row.measure reports under max width avail_w is <= avail_h, else Push.
C24_RowSplitByMeasure ==
    (lay.pc = "split" /\ lay.node.k = "Row") =>
        LET measured == measure(lay.node, loose(lay.avail_w, INFINITY), MonoFont)
        IN /\ lay.result.action # "Split"
           /\ lay.result.action = "Fit" <=> measured.height <= lay.avail_h
           /\ lay.result.action = "Push" <=> measured.height > lay.avail_h

\* ------------------------------------------ claims on the streaming order
\* The positions in the file of the Pages object.
PagesPositions(f) == {j \in DOMAIN f : HasType(f[j].obj, "Pages")}

\* C25: in streaming mode the Pages object (id 2) is written exactly once, by
\* finalize, after every font, image, content-stream and page object and
\* immediately before the xref table; an image is written by its add_image
\* call, a page's content stream and page object by its add_page call.
C25_StreamingOrder ==
    LET f == writer.file
        n == Len(f)
    IN /\ (inner.some /\ inner.v.mode = "Streaming") =>
             /\ PagesPositions(f) = {}
             /\ writer.tail = <<>>
             /\ Len(SelectSeq(f, LAMBDA e : HasType(e.obj, "XObject"))) = Len(given)
             /\ Len(PageEntries(f)) = Len(added)
             /\ (last.op = "add_image" /\ last.ok) =>
                   /\ last.wrote = 1
                   /\ HasType(f[n].obj, "XObject")
             /\ (last.op = "add_page" /\ last.ok) =>
                   /\ last.wrote \in {2, 2 + 4 * Len(inner.v.fonts)}
                   /\ HasType(f[n].obj, "Page")
                   /\ Role(f[n - 1].obj)[2] = "Contents"
                   /\ DictGet(f[n].obj.d, "Contents") = Some(Reference(f[n - 1].id))
       /\ (last.op = "finalize" /\ last.ok) =>
             /\ last.wrote = 2
             /\ PagesPositions(f) = {n}
             /\ f[n].id = pages_id
             /\ Len(SelectSeq(f, LAMBDA e : HasType(e.obj, "XObject"))) = Len(given)
             /\ Len(PageEntries(f)) = Len(added)
             /\ DictGet(f[n].obj.d, "Kids")
                   = Some(Array([i \in 1..Len(added) |->
                                    Reference(PageEntries(f)[i].id)]))
             /\ Len(writer.tail) = 1
             /\ writer.tail[1].startxref = f[n].at + f[n].len

C25_Witness ==
    /\ last.op = "finalize" /\ last.ok
    /\ Len(given) >= 1 /\ Len(added) >= 2
    /\ \E j \in DOMAIN writer.file : IsBundleObject(writer.file[j].obj)

RECURSIVE LeafItems(_)
LeafItems(n) ==
    CASE n.k = "Text" ->
           [i \in DOMAIN split_whitespace(n.text) |->
               [item |-> "word", v |-> split_whitespace(n.text)[i]]]
      [] n.k = "Table" ->
           [i \in DOMAIN n.table.rows |-> [item |-> "row", v |-> n.table.rows[i]]]
      [] n.k = "Column" ->
           LET RECURSIVE Items(_)
               Items(i) == IF i = 0 THEN <<>>
                           ELSE Items(i - 1) \o LeafItems(n.children[i])
           IN Items(Len(n.children))
      [] n.k = "Container" -> LeafItems(n.child)
      [] OTHER -> <<[item |-> "node", v |-> n]>>

\* C27: whenever a split answers Split(head, tail), both parts hold content
\* and tail holds strictly less than the node that was split (fewer words,
\* rows or leaf items).
C27_SplitShrinks ==
    (lay.pc = "split" /\ lay.result.action = "Split") =>
        /\ LeafItems(lay.result.head) # <<>>
        /\ LeafItems(lay.result.tail) # <<>>
        /\ Len(LeafItems(lay.result.tail)) < Len(LeafItems(lay.node))

\* The leaf items of the body pieces rendered on pages 1..k, page after page.
RECURSIVE RenderedItems(_, _)
RenderedItems(pieces, k) ==
    IF k = 0 THEN <<>>
    ELSE RenderedItems(pieces, k - 1) \o LeafItems(pieces[k])

\* C28: when render_flow returns, every leaf item of the body tree has been
\* rendered on exactly one page and the items appear across the pages in
\* their tree order: nothing is dropped and nothing is rendered twice.
C28_EveryItemOnce ==
    flow.pc = "done" =>
        RenderedItems(flow.pieces, Len(flow.pieces)) = LeafItems(flow.node)

C28_Witness ==
    /\ flow.pc = "done"
    /\ Len(flow.pieces) >= 3
    /\ flow.node.k = "Column"
    /\ \A k \in DOMAIN flow.pieces : LeafItems(flow.pieces[k]) # <<>>

\* C29: the body piece rendered on each page of render_flow has measured
\* height at most body_available_height, also when the root's split answers
\* Push, so no body content reaches the footer region or the page bottom.
C29_BodyWithinAvailable ==
    \A k \in DOMAIN flow.pieces :
        measure(flow.pieces[k], loose(flow.content_width, INFINITY), MonoFont).height
            <= flow.body_available_height

\* ------------------------------------- claims on wrong-mode terminal calls
\* C30: a terminal call that fails because of the mode leaves the document
\* unchanged and usable: after finalize fails on a buffered document its
\* fonts, images and pages are intact and write_to succeeds; after write_to
\* fails on a streaming document add_page and finalize succeed.
C30_WrongModeKeepsDocument ==
    /\ (last.op = "finalize" /\ ~last.ok /\ last.mode = "Buffered") =>
          /\ inner.some
          /\ inner.v.mode = "Buffered"
          /\ Len(inner.v.pages) = Len(added)
          /\ Len(inner.v.images) = Len(given)
          /\ write_to(inner.v).ok
    /\ (last.op = "write_to" /\ ~last.ok /\ last.mode = "Streaming") =>
          /\ inner.some
          /\ inner.v.mode = "Streaming"
          /\ Len(inner.v.page_ids) = Len(added)
          /\ Len(inner.v.image_ids) = Len(given)
          /\ finalize(inner.v, writer).ok

====
